---- MODULE Spec2Model ----
(***************************************************************************)
(* The RideShare / RecTransport HTTP backend of src/backend/main.py as a   *)
(* state machine over its document collections.                            *)
(*                                                                         *)
(* State: the six collections the handlers read and write (users, drivers, *)
(* passengers, vehicles, fuel_entries, rides: each the list the datastore  *)
(* returns for find_all, in insertion order), the bearer tokens issued by  *)
(* POST /auth/login, the creation requests that are suspended at an await  *)
(* between two datastore calls, and the response of the last request that  *)
(* returned.  lifecycle_calls counts the calls made to the ride lifecycle   *)
(* endpoints, which are outside main.py.                                   *)
(*                                                                         *)
(* models.py, auth.py and database.py are imported by main.py (lines       *)
(* 19-22) but their code is not in the repository's src/; what the         *)
(* handlers need of them is written from the specification and marked so.  *)
(***************************************************************************)
EXTENDS Integers, Sequences, FiniteSets, Bags, TLC

VARIABLES users, drivers, passengers, vehicles, fuel_entries, rides,
          tokens, inflight, last, lifecycle_calls

vars == <<users, drivers, passengers, vehicles, fuel_entries, rides,
          tokens, inflight, last, lifecycle_calls>>

store == <<users, drivers, passengers, vehicles, fuel_entries, rides>>

-----------------------------------------------------------------------------
(* Bounds of the model.                                                    *)

\* Creation requests the handlers admit, all POST routes together: each of
\* them inserts one document, or a User and its profile.
MaxCreated == 2

\* Calls made to the ride lifecycle endpoints.
MaxLifecycleCalls == 2

-----------------------------------------------------------------------------
(* Python values of the JSON request bodies.  A value carries its type, so *)
(* that truthiness ("if not data.get(field)") and isinstance can be        *)
(* computed as Python computes them.  A str is either opaque text (tag     *)
(* "str", "" the empty string) or spelled out as its characters (tag       *)
(* "chars"), the form used where the code parses the text.                 *)

PyNone == [t |-> "none"]

PyStr(s) == [t |-> "str", v |-> s]

PyChars(cs) == [t |-> "chars", v |-> cs]

PyInt(n) == [t |-> "int", v |-> n]

PyBool(b) == [t |-> "bool", v |-> b]

\* bool(x): None, "", 0, 0.0 and False are falsy.
truthy(x) ==
    CASE x.t = "none"  -> FALSE
      [] x.t = "str"   -> x.v # ""
      [] x.t = "chars" -> x.v # <<>>
      [] x.t = "int"   -> x.v # 0
      [] x.t = "float" -> x.v # 0
      [] x.t = "bool"  -> x.v

\* isinstance(x, str)
isinstance_str(x) == x.t \in {"str", "chars"}

\* dict.get(key): the value, or None when the key is absent.
get(d, k) == IF k \in DOMAIN d THEN d[k] ELSE PyNone

Range(s) == {s[i] : i \in DOMAIN s}

\* Document ids: unique, assigned at insert.  The n-th document of a
\* collection gets the n-th id of the collection's list.
IdsOf(prefix) ==
    CASE prefix = "u" -> <<"u1", "u2", "u3", "u4", "u5", "u6", "u7", "u8">>
      [] prefix = "d" -> <<"d1", "d2", "d3", "d4", "d5", "d6", "d7", "d8">>
      [] prefix = "p" -> <<"p1", "p2", "p3", "p4", "p5", "p6", "p7", "p8">>
      [] prefix = "v" -> <<"v1", "v2", "v3", "v4", "v5", "v6", "v7", "v8">>
      [] prefix = "f" -> <<"f1", "f2", "f3", "f4", "f5", "f6", "f7", "f8">>
      [] prefix = "r" -> <<"r1", "r2", "r3", "r4", "r5", "r6", "r7", "r8">>

new_id(prefix, coll) == IdsOf(prefix)[Len(coll) + 1]

-----------------------------------------------------------------------------
(* Datastore queries.                                                      *)

\* Model.find(query).to_list() is SelectSeq(collection, query): the matching
\* documents, in insertion order.

\* Model.find_one({"email": email}) on users: the list holding the first
\* match, or the empty list for None.
find_one_email(email) ==
    LET hits == SelectSeq(users, LAMBDA u : u.email = email)
    IN  IF hits = <<>> THEN <<>> ELSE <<hits[1]>>

-----------------------------------------------------------------------------
(* auth.py, from the specification: passwords are stored hashed and a      *)
(* password verifies against the hash of the same password only; a bearer  *)
(* token names the email it was issued for; the role dependencies admit    *)
(* only a caller whose token resolves to a stored user of that role.       *)

get_password_hash(password) == [hash_of |-> password]

verify_password(password, password_hash) ==
    password_hash = get_password_hash(password)

create_access_token(sub) == [sub |-> sub]

\* No Authorization header.
NoToken == [sub |-> ""]

get_current_user(bearer) ==
    IF bearer \notin tokens
    THEN [ok |-> FALSE, status |-> 401]
    ELSE LET hit == find_one_email(bearer.sub)
         IN  IF hit = <<>> THEN [ok |-> FALSE, status |-> 401]
             ELSE [ok |-> TRUE, user |-> hit[1]]

get_current_admin(bearer) ==
    LET cur == get_current_user(bearer)
    IN  IF ~cur.ok THEN cur
        ELSE IF cur.user.role # "admin" THEN [ok |-> FALSE, status |-> 403]
        ELSE cur

get_current_driver(bearer) ==
    LET cur == get_current_user(bearer)
    IN  IF ~cur.ok THEN cur
        ELSE IF cur.user.role # "driver" THEN [ok |-> FALSE, status |-> 403]
        ELSE cur

\* What each route declares as its Depends(...) parameter.
DependsOf_open(route) ==
    CASE route = "POST /auth/login"    -> "none"
      [] route = "POST /users"         -> "admin"
      [] route = "POST /drivers"       -> "admin"
      [] route = "POST /passengers"    -> "admin"
      [] route = "GET /drivers"        -> "admin"
      [] route = "GET /passengers"     -> "admin"
      [] route = "POST /vehicles"      -> "admin"
      [] route = "GET /vehicles"       -> "admin"
      [] route = "GET /fuel-entries"   -> "admin"
      [] route = "POST /fuel-entries"  -> "none"
      [] route = "POST /rides"         -> "none"
      [] route = "GET /rides"          -> "none"
      [] route = "GET /rides/pending"  -> "admin"
      [] route = "GET /rides/assigned" -> "driver"

DependsOf(route) ==
    CASE route = "POST /auth/login"    -> "none"
      [] route = "POST /users"         -> "admin"
      [] route = "POST /drivers"       -> "admin"
      [] route = "POST /passengers"    -> "admin"
      [] route = "GET /drivers"        -> "admin"
      [] route = "GET /passengers"     -> "admin"
      [] route = "POST /vehicles"      -> "admin"
      [] route = "GET /vehicles"       -> "admin"
      [] route = "GET /fuel-entries"   -> "admin"
      [] route = "POST /fuel-entries"  -> "admin"
      [] route = "POST /rides"         -> "none"
      [] route = "GET /rides"          -> "none"
      [] route = "GET /rides/pending"  -> "admin"
      [] route = "GET /rides/assigned" -> "driver"

\* FastAPI resolves the route's dependency before it calls the handler.
depends(route, bearer) ==
    CASE DependsOf(route) = "none"   -> [ok |-> TRUE]
      [] DependsOf(route) = "admin"  -> get_current_admin(bearer)
      [] DependsOf(route) = "driver" -> get_current_driver(bearer)

\* raise HTTPException(status_code, detail); detail is the list of the
\* message's parts.
HTTPException(status_code, detail) ==
    [status |-> status_code, detail |-> detail]

-----------------------------------------------------------------------------
(* database.py create_default_users, from the specification: the store     *)
(* starts with an admin account.                                           *)

DefaultAdmin ==
    [_id |-> "u1", name |-> "Admin", email |-> "admin@x", role |-> "admin",
     password_hash |-> get_password_hash("admin-pw")]

\* The requests' inputs.
Emails == {"admin@x", "ann@x", "bob@x"}

Passwords == {"admin-pw", "password", "wrong"}

NameOf(email) ==
    CASE email = "admin@x" -> "Admin"
      [] email = "ann@x"   -> "Ann"
      [] email = "bob@x"   -> "Bob"

Credentials == [email : Emails, password : Passwords]

\* The bearer a caller may present: none, or a token login has issued.
Bearers == {NoToken} \cup tokens

-----------------------------------------------------------------------------
(* POST /auth/login                                                        *)

login_skips_verify(user_credentials) ==
    LET hit == find_one_email(user_credentials.email)
    IN  IF hit = <<>>
        THEN HTTPException(401, <<"Incorrect email or password">>)
        ELSE [status |-> 200,
              access_token |-> create_access_token(hit[1].email),
              token_type |-> "bearer",
              user |-> hit[1]]

\* A second mutant tells the caller that the email is not registered.
login_reveals_unknown_email(user_credentials) ==
    LET hit == find_one_email(user_credentials.email)
    IN  IF hit = <<>>
        THEN HTTPException(401, <<"User not found">>)
        ELSE IF ~verify_password(user_credentials.password,
                                 hit[1].password_hash)
        THEN HTTPException(401, <<"Incorrect email or password">>)
        ELSE [status |-> 200,
              access_token |-> create_access_token(hit[1].email),
              token_type |-> "bearer",
              user |-> hit[1]]

login(user_credentials) ==
    LET hit == find_one_email(user_credentials.email)
    IN  IF hit = <<>>
        THEN HTTPException(401, <<"Incorrect email or password">>)
        ELSE IF ~verify_password(user_credentials.password,
                                 hit[1].password_hash)
        THEN HTTPException(401, <<"Incorrect email or password">>)
        ELSE [status |-> 200,
              access_token |-> create_access_token(hit[1].email),
              token_type |-> "bearer",
              user |-> hit[1]]

Login ==
    \E c \in Credentials :
        LET r == login(c)
        IN  /\ last' = [route |-> "POST /auth/login", resp |-> r]
            /\ tokens' = IF r.status = 200
                         THEN tokens \cup {r.access_token} ELSE tokens
            /\ UNCHANGED <<store, inflight, lifecycle_calls>>

-----------------------------------------------------------------------------
(* models.py, from the specification: the documents' fields.  Only the     *)
(* fields a handler of main.py reads back are kept.                        *)

User(id, name, email, role, password_hash) ==
    [_id |-> id, name |-> name, email |-> email, role |-> role,
     password_hash |-> password_hash]

\* Driver.create_driver(user_id=...): main.py passes no vehicle attribute
\* ("without vehicle info"), so they take their default, None.
Driver(id, user_id) ==
    [_id |-> id, user_id |-> user_id,
     vehicle_make |-> PyNone, vehicle_model |-> PyNone,
     license_plate |-> PyNone, vehicle_color |-> PyNone]

\* if (driver.vehicle_make and driver.vehicle_model and
\*     driver.license_plate and driver.vehicle_color)
\* The mutant tests the make alone.
has_vehicle_make_only(driver) == truthy(driver.vehicle_make)

has_vehicle(driver) ==
    /\ truthy(driver.vehicle_make)
    /\ truthy(driver.vehicle_model)
    /\ truthy(driver.license_plate)
    /\ truthy(driver.vehicle_color)

Passenger(id, user_id) == [_id |-> id, user_id |-> user_id]

Roles == {"admin", "driver", "passenger"}

\* One body of each kind also carries a "password" key, which the handlers
\* never read.
UserBodies ==
    {[name |-> NameOf(e), email |-> e, role |-> r] : e \in Emails, r \in Roles}
    \cup {[name |-> "Eve", email |-> "bob@x", role |-> "driver",
           password |-> "wrong"]}

\* The bodies of POST /drivers and POST /passengers: {"user": {...}, ...}.
ProfileBodies ==
    {[user |-> [name |-> NameOf(e), email |-> e]] : e \in Emails}
    \cup {[user |-> [name |-> "Eve", email |-> "bob@x", password |-> "wrong"]]}

-----------------------------------------------------------------------------
(* POST /users, POST /drivers, POST /passengers.  Each handler awaits      *)
(* find_one, then insert (and, for a profile, a second insert); other      *)
(* requests run at each await.  A request suspended between two of its     *)
(* datastore calls is an element of inflight.                              *)

\* Creation requests admitted so far.  Each has inserted its first document
\* (every User but the default admin, every vehicle, fuel entry and ride is
\* one request's first document) or is suspended before that insert.
NumCreated ==
    LET waiting == {q \in BagToSet(inflight) : q.pc = "insert_user"}
    IN  (Len(users) - 1) + Len(vehicles) + Len(fuel_entries) + Len(rides)
        + BagCardinality([q \in waiting |-> CopiesIn(q, inflight)])

\* The model's bound leaves room for one more creation request.
Room == NumCreated < MaxCreated

Suspend(q) == inflight (+) SetToBag({q})

Resume(q) == inflight (-) SetToBag({q})

Suspended(route, pc) ==
    {q \in BagToSet(inflight) : q.route = route /\ q.pc = pc}

\* A request that FastAPI's dependency rejects never reaches its handler.
Rejected(route, auth) ==
    /\ last' = [route |-> route, resp |-> HTTPException(auth.status,
                                                     <<"Not authorized">>)]
    /\ UNCHANGED <<store, tokens, inflight, lifecycle_calls>>

\* The email check the three handlers open with; the mutant looks the user
\* up by name instead.
existing_user_by_name(email) ==
    SelectSeq(users, LAMBDA u : u.name = email)

existing_user(email) == find_one_email(email)

create_user_find(user_data) ==
    IF existing_user(user_data.email) # <<>>
    THEN [done |-> TRUE,
          resp |-> HTTPException(400, <<"User with this email already exists">>)]
    ELSE [done |-> FALSE]

create_driver_find(driver_data) ==
    IF existing_user(driver_data.user.email) # <<>>
    THEN [done |-> TRUE,
          resp |-> HTTPException(400, <<"User with this email already exists">>)]
    ELSE [done |-> FALSE]

create_passenger_find(passenger_data) ==
    IF existing_user(passenger_data.user.email) # <<>>
    THEN [done |-> TRUE,
          resp |-> HTTPException(400, <<"User with this email already exists">>)]
    ELSE [done |-> FALSE]

\* The first step of a creation request: dependency, then the email check
\* on the body; step maps each body to its check.
CreateFind(route, step) ==
    \E bearer \in Bearers :
        LET auth == depends(route, bearer)
        IN  IF ~auth.ok THEN Rejected(route, auth)
            ELSE \E data \in DOMAIN step :
                     IF step[data].done
                     THEN /\ last' = [route |-> route, resp |-> step[data].resp]
                          /\ UNCHANGED <<store, tokens, inflight,
                                         lifecycle_calls>>
                     ELSE /\ Room
                          /\ inflight' = Suspend([route |-> route,
                                                  pc |-> "insert_user",
                                                  data |-> data])
                          /\ UNCHANGED <<store, tokens, last, lifecycle_calls>>

CreateUserFind ==
    CreateFind("POST /users",
               [user_data \in UserBodies |-> create_user_find(user_data)])

\* The mutant hashes the body's "password" when the body carries one.
CreateUserInsert_password_from_body ==
    \E q \in Suspended("POST /users", "insert_user") :
        LET password == IF "password" \in DOMAIN q.data
                        THEN q.data.password ELSE "password"
            new_user == User(new_id("u", users), q.data.name, q.data.email,
                             q.data.role, get_password_hash(password))
        IN  /\ users' = Append(users, new_user)
            /\ inflight' = Resume(q)
            /\ last' = [route |-> q.route,
                        resp |-> [status |-> 200, body |-> new_user]]
            /\ UNCHANGED <<drivers, passengers, vehicles, fuel_entries,
                           rides, tokens, lifecycle_calls>>

\* new_user = User(..., password_hash=get_password_hash("password"));
\* await new_user.insert(); return new_user
CreateUserInsert ==
    \E q \in Suspended("POST /users", "insert_user") :
        LET new_user == User(new_id("u", users), q.data.name, q.data.email,
                             q.data.role, get_password_hash("password"))
        IN  /\ users' = Append(users, new_user)
            /\ inflight' = Resume(q)
            /\ last' = [route |-> q.route,
                        resp |-> [status |-> 200, body |-> new_user]]
            /\ UNCHANGED <<drivers, passengers, vehicles, fuel_entries,
                           rides, tokens, lifecycle_calls>>

CreateDriverFind ==
    CreateFind("POST /drivers",
               [driver_data \in ProfileBodies |->
                   create_driver_find(driver_data)])

CreatePassengerFind ==
    CreateFind("POST /passengers",
               [passenger_data \in ProfileBodies |->
                   create_passenger_find(passenger_data)])

\* "Create user first": the User insert of POST /drivers and POST /passengers.
CreateProfileUserInsert ==
    \E q \in Suspended("POST /drivers", "insert_user")
             \cup Suspended("POST /passengers", "insert_user") :
        LET role == IF q.route = "POST /drivers" THEN "driver" ELSE "passenger"
            new_user == User(new_id("u", users), q.data.user.name,
                             q.data.user.email, role,
                             get_password_hash("password"))
        IN  /\ users' = Append(users, new_user)
            /\ inflight' = Resume(q) (+) SetToBag({[route |-> q.route,
                               pc |-> "insert_profile",
                               user_id |-> new_user._id]})
            /\ UNCHANGED <<drivers, passengers, vehicles, fuel_entries,
                           rides, tokens, last, lifecycle_calls>>

CreateDriverInsert ==
    \E q \in Suspended("POST /drivers", "insert_profile") :
        LET driver_profile == Driver(new_id("d", drivers), q.user_id)
        IN  /\ drivers' = Append(drivers, driver_profile)
            /\ inflight' = Resume(q)
            /\ last' = [route |-> q.route,
                        resp |-> [status |-> 200, body |-> driver_profile]]
            /\ UNCHANGED <<users, passengers, vehicles, fuel_entries,
                           rides, tokens, lifecycle_calls>>

CreatePassengerInsert ==
    \E q \in Suspended("POST /passengers", "insert_profile") :
        LET passenger_profile == Passenger(new_id("p", passengers), q.user_id)
        IN  /\ passengers' = Append(passengers, passenger_profile)
            /\ inflight' = Resume(q)
            /\ last' = [route |-> q.route,
                        resp |-> [status |-> 200, body |-> passenger_profile]]
            /\ UNCHANGED <<users, drivers, vehicles, fuel_entries,
                           rides, tokens, lifecycle_calls>>

\* A request has inserted this User and is suspended before it inserts the
\* profile.
PendingProfile(user) ==
    \E q \in BagToSet(inflight) :
        q.pc = "insert_profile" /\ q.user_id = user._id

\* The mutant is a server that compensates: the Users of the requests the
\* crash interrupts are removed again.
Crash_rolls_back ==
    /\ inflight # EmptyBag
    /\ inflight' = EmptyBag
    /\ users' = SelectSeq(users, LAMBDA u : ~PendingProfile(u))
    /\ UNCHANGED <<drivers, passengers, vehicles, fuel_entries, rides,
                   tokens, last, lifecycle_calls>>

\* The server process dies and restarts: the suspended requests are gone,
\* the datastore and the (stateless) tokens are not.
Crash ==
    /\ inflight # EmptyBag
    /\ inflight' = EmptyBag
    /\ UNCHANGED <<store, tokens, last, lifecycle_calls>>

-----------------------------------------------------------------------------
(* datetime.strptime(text, format) for the numeric directives %d, %m, %Y   *)
(* and literal characters, as CPython's _strptime does it: the format       *)
(* becomes a regular expression matched from the start of the text          *)
(*   %d  3[0-1] | [1-2]\d | 0[1-9] | [1-9] | " "[1-9]                       *)
(*   %m  1[0-2] | 0[1-9] | [1-9]                                            *)
(*   %Y  \d\d\d\d                                                           *)
(* the whole text must be consumed ("unconverted data remains"), and the    *)
(* date built from the fields must exist (month lengths, leap years, year   *)
(* at least 1).  A text is the sequence of its characters.                  *)

Digits == <<"0", "1", "2", "3", "4", "5", "6", "7", "8", "9">>

IsDigit(c) == \E i \in DOMAIN Digits : Digits[i] = c

DigitVal(c) == (CHOOSE i \in DOMAIN Digits : Digits[i] = c) - 1

IsNonZeroDigit(c) == IsDigit(c) /\ c # "0"

RECURSIVE NumVal(_)
NumVal(cs) ==
    IF cs = <<>> THEN 0
    ELSE 10 * NumVal(SubSeq(cs, 1, Len(cs) - 1)) + DigitVal(cs[Len(cs)])

\* The lengths at which directive dir matches text at position i, in the
\* order the regular expression tries its alternatives.
DirectiveMatches(dir, text, i) ==
    LET c(k) == text[i + k]
        has(n) == i + n - 1 <= Len(text)
    IN  CASE dir = "%d" ->
               (IF has(2) /\ (\/ c(0) = "3" /\ c(1) \in {"0", "1"}
                              \/ c(0) \in {"1", "2"} /\ IsDigit(c(1))
                              \/ c(0) = "0" /\ IsNonZeroDigit(c(1)))
                THEN <<2>> ELSE <<>>)
               \o (IF has(1) /\ IsNonZeroDigit(c(0)) THEN <<1>> ELSE <<>>)
               \o (IF has(2) /\ c(0) = " " /\ IsNonZeroDigit(c(1))
                   THEN <<2>> ELSE <<>>)
          [] dir = "%m" ->
               (IF has(2) /\ (\/ c(0) = "1" /\ c(1) \in {"0", "1", "2"}
                              \/ c(0) = "0" /\ IsNonZeroDigit(c(1)))
                THEN <<2>> ELSE <<>>)
               \o (IF has(1) /\ IsNonZeroDigit(c(0)) THEN <<1>> ELSE <<>>)
          [] dir = "%Y" ->
               IF has(4) /\ \A k \in 0..3 : IsDigit(c(k)) THEN <<4>> ELSE <<>>
          [] OTHER ->
               IF has(1) /\ c(0) = dir THEN <<1>> ELSE <<>>

\* The field a directive's match denotes: int(found["d"]) and so on; the
\* space of a space-padded day is no digit.
FieldVal(cs) == NumVal(SelectSeq(cs, IsDigit))

\* re.match with backtracking: the first way to match format[k..] from
\* text[i..], as the list of one record of fields, or the empty list.
RECURSIVE MatchFrom(_, _, _, _, _)
MatchFrom(format, k, text, i, found) ==
    IF k > Len(format)
    THEN <<[end |-> i, fields |-> found]>>
    ELSE LET lens == DirectiveMatches(format[k], text, i)
             try(n) == MatchFrom(format, k + 1, text, i + n,
                          IF format[k] \in {"%d", "%m", "%Y"}
                          THEN [found EXCEPT ![format[k]] =
                                   FieldVal(SubSeq(text, i, i + n - 1))]
                          ELSE found)
             firstOf[j \in 1..(Len(lens) + 1)] ==
                 IF j > Len(lens) THEN <<>>
                 ELSE LET m == try(lens[j])
                      IN  IF m # <<>> THEN m ELSE firstOf[j + 1]
         IN  firstOf[1]

IsLeap(year) == (year % 4 = 0 /\ year % 100 # 0) \/ year % 400 = 0

DaysInMonth(month, year) ==
    CASE month \in {1, 3, 5, 7, 8, 10, 12} -> 31
      [] month \in {4, 6, 9, 11}           -> 30
      [] month = 2 -> IF IsLeap(year) THEN 29 ELSE 28

datetime(year, month, day) ==
    [kind |-> "datetime", year |-> year, month |-> month, day |-> day]

\* datetime.utcnow(): the clock's value is not modelled.
utcnow == [kind |-> "utcnow"]

\* A field the format does not name keeps its default (1900-01-01).
DefaultFields == [dir \in {"%d", "%m", "%Y"} |-> IF dir = "%Y" THEN 1900 ELSE 1]

\* The result: [ok |-> TRUE, value |-> datetime] or [ok |-> FALSE] (ValueError).
strptime_unchecked(text, format) ==
    LET m == MatchFrom(format, 1, text, 1, DefaultFields)
    IN  IF m = <<>> THEN [ok |-> FALSE]
        ELSE [ok |-> TRUE,
              value |-> datetime(m[1].fields["%Y"], m[1].fields["%m"],
                                 m[1].fields["%d"])]

strptime(text, format) ==
    LET m == MatchFrom(format, 1, text, 1, DefaultFields)
    IN  IF m = <<>> THEN [ok |-> FALSE]
        ELSE IF m[1].end # Len(text) + 1 THEN [ok |-> FALSE]
        ELSE LET f == m[1].fields
             IN  IF f["%Y"] < 1 \/ f["%d"] > DaysInMonth(f["%m"], f["%Y"])
                 THEN [ok |-> FALSE]
                 ELSE [ok |-> TRUE,
                       value |-> datetime(f["%Y"], f["%m"], f["%d"])]

-----------------------------------------------------------------------------
(* POST /vehicles and GET /vehicles                                        *)

Vehicle(id, vehicle_make, vehicle_model, vehicle_year, license_plate, vehicle_color, license_number, license_expiry) ==
    [_id |-> id, vehicle_make |-> vehicle_make,
     vehicle_model |-> vehicle_model, vehicle_year |-> vehicle_year,
     license_plate |-> license_plate, vehicle_color |-> vehicle_color,
     license_number |-> license_number, license_expiry |-> license_expiry]

required_fields_vehicle_short ==
    <<"vehicle_make", "vehicle_model", "vehicle_year", "license_plate",
      "vehicle_color", "license_number">>

required_fields_vehicle ==
    <<"vehicle_make", "vehicle_model", "vehicle_year", "license_plate",
      "vehicle_color", "license_number", "license_expiry">>

\* f"Missing required field: {field}"
MissingRequiredField(field) == <<"Missing required field: ", field>>

\* int(x): an int as it is, a str of digits as the number, ValueError
\* for any other text.
int(x) ==
    CASE x.t = "int" -> [ok |-> TRUE, value |-> x.v]
      [] x.t = "bool" -> [ok |-> TRUE, value |-> IF x.v THEN 1 ELSE 0]
      [] x.t = "chars" ->
            IF x.v # <<>> /\ \A k \in DOMAIN x.v : IsDigit(x.v[k])
            THEN [ok |-> TRUE, value |-> NumVal(x.v)]
            ELSE [ok |-> FALSE]
      [] OTHER -> [ok |-> FALSE]

\* The mutant builds and inserts the Vehicle before it looks at
\* license_expiry: a text that does not parse is answered 400 with the
\* Vehicle, holding the text, already stored.
create_vehicle_inserts_first(vehicle_data) ==
    LET missing == SelectSeq(required_fields_vehicle,
                             LAMBDA field : ~truthy(get(vehicle_data, field)))
        license_expiry == vehicle_data["license_expiry"]
        parsed == IF isinstance_str(license_expiry)
                  THEN strptime(license_expiry.v,
                                <<"%d", "-", "%m", "-", "%Y">>)
                  ELSE [ok |-> TRUE, value |-> license_expiry]
        year == int(vehicle_data["vehicle_year"])
        vehicle == Vehicle(new_id("v", vehicles),
                           vehicle_data["vehicle_make"],
                           vehicle_data["vehicle_model"],
                           IF year.ok THEN year.value ELSE 0,
                           vehicle_data["license_plate"],
                           vehicle_data["vehicle_color"],
                           vehicle_data["license_number"],
                           IF parsed.ok THEN parsed.value ELSE license_expiry)
    IN  IF missing # <<>>
        THEN [resp |-> HTTPException(400, MissingRequiredField(missing[1])),
              inserted |-> <<>>]
        ELSE IF ~parsed.ok
        THEN [resp |-> HTTPException(400,
                           <<"license_expiry must be in DD-MM-YYYY format">>),
              inserted |-> <<vehicle>>]
        ELSE IF ~year.ok
        THEN [resp |-> HTTPException(500, <<"Failed to create vehicle: ",
                                            "ValueError">>),
              inserted |-> <<>>]
        ELSE [resp |-> [status |-> 200, body |-> vehicle],
              inserted |-> <<vehicle>>]

\* The handler's result: the response and the list of what it inserted.
create_vehicle(vehicle_data) ==
    LET missing == SelectSeq(required_fields_vehicle,
                             LAMBDA field : ~truthy(get(vehicle_data, field)))
        license_expiry == vehicle_data["license_expiry"]
        parsed == IF isinstance_str(license_expiry)
                  THEN strptime(license_expiry.v,
                                <<"%d", "-", "%m", "-", "%Y">>)
                  ELSE [ok |-> TRUE, value |-> license_expiry]
        year == int(vehicle_data["vehicle_year"])
    IN  IF missing # <<>>
        THEN [resp |-> HTTPException(400, MissingRequiredField(missing[1])),
              inserted |-> <<>>]
        ELSE IF "license_expiry" \notin DOMAIN vehicle_data
        THEN [resp |-> HTTPException(500, <<"KeyError">>), inserted |-> <<>>]
        ELSE IF ~parsed.ok
        THEN [resp |-> HTTPException(400,
                           <<"license_expiry must be in DD-MM-YYYY format">>),
              inserted |-> <<>>]
        ELSE IF ~year.ok
        THEN [resp |-> HTTPException(500, <<"Failed to create vehicle: ",
                                            "ValueError">>),
              inserted |-> <<>>]
        ELSE LET vehicle == Vehicle(new_id("v", vehicles),
                                vehicle_data["vehicle_make"],
                                vehicle_data["vehicle_model"],
                                year.value,
                                vehicle_data["license_plate"],
                                vehicle_data["vehicle_color"],
                                vehicle_data["license_number"],
                                parsed.value)
             IN  [resp |-> [status |-> 200, body |-> vehicle],
                  inserted |-> <<vehicle>>]

\* The texts tried as license_expiry: dates written day-month-year with
\* and without padding, dates that do not exist, other layouts.
ExpiryTexts ==
    {<<"3", "1", "-", "1", "2", "-", "2", "0", "2", "5">>,
     <<"2", "9", "-", "0", "2", "-", "2", "0", "2", "4">>,
     <<"1", "-", "2", "-", "2", "0", "2", "5">>,
     <<" ", "1", "-", "0", "2", "-", "2", "0", "2", "5">>,
     <<"2", "9", "-", "0", "2", "-", "2", "0", "2", "3">>,
     <<"3", "1", "-", "0", "4", "-", "2", "0", "2", "5">>,
     <<"0", "0", "-", "0", "1", "-", "2", "0", "2", "5">>,
     <<"1", "3", "-", "1", "3", "-", "2", "0", "2", "5">>,
     <<"0", "1", "-", "0", "1", "-", "0", "0", "0", "0">>,
     <<"2", "0", "2", "5", "-", "1", "2", "-", "3", "1">>,
     <<"3", "1", "/", "1", "2", "/", "2", "0", "2", "5">>,
     <<"3", "1", "-", "1", "2", "-", "2", "5">>,
     <<"3", "1", "-", "1", "2", "-", "2", "0", "2", "5", "5">>,
     <<"a", "b", "c">>}

\* A body gives each key a value or leaves it out.
Absent == [t |-> "absent"]

BodyOf(row) == [k \in {f \in DOMAIN row : row[f] # Absent} |-> row[k]]

TextValues == {Absent, PyStr("x")}

YearValues == {Absent, PyInt(0), PyInt(2020), PyChars(<<"2", "0", "2", "1">>),
               PyChars(<<"a", "b", "c">>)}

ExpiryValues == {Absent, PyChars(<<>>)} \cup {PyChars(cs) : cs \in ExpiryTexts}

\* Bodies that differ in the keys they carry, and complete bodies that
\* differ in what vehicle_year and license_expiry hold.
VehicleBodies ==
    {BodyOf(row) : row \in
        [vehicle_make : TextValues,
         vehicle_model : TextValues,
         vehicle_year : {Absent, PyInt(0), PyInt(2020)},
         license_plate : TextValues,
         vehicle_color : TextValues,
         license_number : TextValues,
         license_expiry :
             {Absent, PyChars(<<>>),
              PyChars(<<"3", "1", "-", "1", "2", "-", "2", "0", "2", "5">>)}]
        \cup [vehicle_make : {PyStr("x")},
              vehicle_model : {PyStr("x")},
              vehicle_year : YearValues \ {Absent},
              license_plate : {PyStr("x")},
              vehicle_color : {PyStr("x")},
              license_number : {PyStr("x")},
              license_expiry : ExpiryValues \ {Absent}]}

\* The bodies the full system is run with: a complete one, and one of each
\* way to fail.
VehicleBodiesCore ==
    {b \in VehicleBodies :
        /\ \A f \in {"vehicle_make", "vehicle_model", "license_plate",
                     "vehicle_color"} : f \in DOMAIN b
        /\ get(b, "vehicle_year") \in {PyInt(2020), PyChars(<<"a", "b", "c">>)}
        /\ get(b, "license_expiry") \in
              {PyChars(<<"3", "1", "-", "1", "2", "-", "2", "0", "2", "5">>),
               PyChars(<<"2", "0", "2", "5", "-", "1", "2", "-", "3", "1">>)}}

CreateVehicle(bodies) ==
    \E bearer \in Bearers :
        LET auth == depends("POST /vehicles", bearer)
        IN  IF ~auth.ok THEN Rejected("POST /vehicles", auth)
            ELSE \E vehicle_data \in bodies :
                     \E r \in {create_vehicle(vehicle_data)} :
                         /\ r.inserted # <<>> => Room
                         /\ vehicles' = vehicles \o r.inserted
                         /\ last' = [route |-> "POST /vehicles",
                                     resp |-> r.resp]
                         /\ UNCHANGED <<users, drivers, passengers,
                                        fuel_entries, rides, tokens,
                                        inflight, lifecycle_calls>>

-----------------------------------------------------------------------------
(* POST /fuel-entries                                                      *)

PyFloat(n) == [t |-> "float", v |-> n]

\* float(x): ValueError for text that is no number.
float(x) ==
    CASE x.t = "int" -> [ok |-> TRUE, value |-> PyFloat(x.v)]
      [] x.t = "float" -> [ok |-> TRUE, value |-> x]
      [] x.t = "chars" ->
            IF x.v # <<>> /\ \A k \in DOMAIN x.v : IsDigit(x.v[k])
            THEN [ok |-> TRUE, value |-> PyFloat(NumVal(x.v))]
            ELSE [ok |-> FALSE]
      [] OTHER -> [ok |-> FALSE]

FuelEntry(id, driver_id, fuel_amount, fuel_cost, fuel_type, odometer_reading, fuel_station, date) ==
    [_id |-> id, driver_id |-> driver_id, fuel_amount |-> fuel_amount,
     fuel_cost |-> fuel_cost, fuel_type |-> fuel_type,
     odometer_reading |-> odometer_reading, fuel_station |-> fuel_station,
     date |-> date, created_at |-> utcnow]

required_fields_fuel ==
    <<"driver_id", "fuel_amount", "fuel_cost", "fuel_type", "odometer_reading">>

\* The whole body of the handler is inside try ... except Exception, which
\* turns whatever is raised, the HTTPException of the field check included,
\* into HTTPException(500, "Failed to create fuel entry: " + str(e)).
create_fuel_entry(fuel_data) ==
    LET missing == SelectSeq(required_fields_fuel,
                             LAMBDA field : ~truthy(get(fuel_data, field)))
        given == get(fuel_data, "date")
        parsed == IF given.t = "chars"
                  THEN strptime(given.v, <<"%Y", "-", "%m", "-", "%d">>)
                  ELSE [ok |-> FALSE]
        fuel_date == IF truthy(given) /\ isinstance_str(given) /\ parsed.ok
                     THEN parsed.value ELSE utcnow
        amount == float(fuel_data["fuel_amount"])
        cost == float(fuel_data["fuel_cost"])
        odometer == float(fuel_data["odometer_reading"])
        failed(e) == [resp |-> HTTPException(500,
                                  <<"Failed to create fuel entry: ">> \o e),
                      inserted |-> <<>>]
    IN  IF missing # <<>>
        THEN failed(<<"400: ">> \o MissingRequiredField(missing[1]))
        ELSE IF ~amount.ok \/ ~cost.ok \/ ~odometer.ok
        THEN failed(<<"ValueError">>)
        ELSE LET fuel_entry ==
                     FuelEntry(new_id("f", fuel_entries),
                               fuel_data["driver_id"], amount.value,
                               cost.value, fuel_data["fuel_type"],
                               odometer.value,
                               IF "fuel_station" \in DOMAIN fuel_data
                               THEN fuel_data["fuel_station"]
                               ELSE PyStr("Unknown"),
                               fuel_date)
             IN  [resp |-> [status |-> 200,
                            body |-> [status |-> "success",
                                      fuel_entry |-> fuel_entry]],
                  inserted |-> <<fuel_entry>>]

\* Driver ids a body may name: d1 is the first driver's id once that driver
\* exists, d9 is never a driver's id.
FuelBodies ==
    {BodyOf(row) : row \in
        [driver_id : {Absent, PyStr(""), PyStr("d1"), PyStr("d9")},
         fuel_amount : {Absent, PyInt(0), PyInt(40),
                        PyChars(<<"a", "b", "c">>)},
         fuel_cost : {Absent, PyInt(50)},
         fuel_type : {Absent, PyStr("diesel")},
         odometer_reading : {Absent, PyInt(0), PyInt(1000)},
         fuel_station : {Absent, PyStr("Shell")},
         date : {Absent,
                 PyChars(<<"2", "0", "2", "5", "-", "1", "2", "-", "3", "1">>),
                 PyChars(<<"3", "1", "-", "1", "2", "-", "2", "0", "2", "5">>)}]}

\* Bodies that carry every required field, one of them with a falsy value:
\* 0, 0.0, "", false or null.
FalsyValues == {PyInt(0), PyFloat(0), PyStr(""), PyBool(FALSE), PyNone}

CompleteVehicleBody ==
    [vehicle_make |-> PyStr("x"), vehicle_model |-> PyStr("x"),
     vehicle_year |-> PyInt(2020), license_plate |-> PyStr("x"),
     vehicle_color |-> PyStr("x"), license_number |-> PyStr("x"),
     license_expiry |->
         PyChars(<<"3", "1", "-", "1", "2", "-", "2", "0", "2", "5">>)]

CompleteFuelBody ==
    [driver_id |-> PyStr("d1"), fuel_amount |-> PyInt(40),
     fuel_cost |-> PyInt(50), fuel_type |-> PyStr("diesel"),
     odometer_reading |-> PyInt(1000)]

VehicleBodiesFalsy ==
    {[CompleteVehicleBody EXCEPT ![field] = v] :
        field \in DOMAIN CompleteVehicleBody, v \in FalsyValues}

FuelBodiesFalsy ==
    {[CompleteFuelBody EXCEPT ![field] = v] :
        field \in DOMAIN CompleteFuelBody, v \in FalsyValues}

FuelBodiesCore ==
    {b \in FuelBodies :
        /\ get(b, "driver_id") \in {PyStr("d1"), PyStr("d9")}
        /\ get(b, "fuel_cost") # PyNone /\ get(b, "fuel_type") # PyNone
        /\ get(b, "fuel_amount") \in {PyNone, PyInt(40)}
        /\ get(b, "odometer_reading") = PyInt(1000)
        /\ get(b, "fuel_station") = PyNone /\ get(b, "date") = PyNone}

CreateFuelEntry(bodies) ==
    \E bearer \in Bearers :
        LET auth == depends("POST /fuel-entries", bearer)
        IN  IF ~auth.ok THEN Rejected("POST /fuel-entries", auth)
            ELSE \E fuel_data \in bodies :
                     \E r \in {create_fuel_entry(fuel_data)} :
                         /\ r.inserted # <<>> => Room
                         /\ fuel_entries' = fuel_entries \o r.inserted
                         /\ last' = [route |-> "POST /fuel-entries",
                                     resp |-> r.resp]
                         /\ UNCHANGED <<users, drivers, passengers,
                                        vehicles, rides, tokens, inflight,
                                        lifecycle_calls>>

-----------------------------------------------------------------------------
(* POST /rides                                                             *)

\* models.py, from the specification: a Ride's requested_at is always set
\* (it defaults to the time of construction); driver id and the other
\* lifecycle timestamps are optional and start as None.
Ride(id, passenger_id, status) ==
    [_id |-> id, passenger_id |-> passenger_id, driver_id |-> PyNone,
     status |-> status, requested_at |-> utcnow, assigned_at |-> PyNone,
     picked_up_at |-> PyNone, completed_at |-> PyNone]

\* The handler passes the body's passenger id and addresses and the fixed
\* status RideStatus.REQUESTED; it reads no other key of the body.
create_ride_status_from_body(ride_data) ==
    Ride(new_id("r", rides), get(ride_data, "passenger_id"),
         IF "status" \in DOMAIN ride_data THEN ride_data["status"].v
         ELSE "requested")

\* A second mutant takes the driver from the body as well.
create_ride_driver_from_body(ride_data) ==
    [Ride(new_id("r", rides), get(ride_data, "passenger_id"), "requested")
        EXCEPT !.driver_id = get(ride_data, "driver_id")]

create_ride(ride_data) ==
    Ride(new_id("r", rides), get(ride_data, "passenger_id"), "requested")

\* p1 is the first passenger's id once that passenger exists, p9 is never a
\* passenger's id.
RideBodies ==
    {BodyOf(row) : row \in
        [passenger_id : {PyStr("p1"), PyStr("p9")},
         status : {Absent, PyStr("completed")},
         driver_id : {Absent, PyStr("d1")}]}

CreateRide ==
    /\ Room
    /\ \E ride_data \in RideBodies :
           LET new_ride == create_ride(ride_data)
           IN  /\ rides' = Append(rides, new_ride)
               /\ last' = [route |-> "POST /rides",
                           resp |-> [status |-> 200, body |-> new_ride]]
               /\ UNCHANGED <<users, drivers, passengers, vehicles,
                              fuel_entries, tokens, inflight, lifecycle_calls>>

-----------------------------------------------------------------------------
(* The ride lifecycle, from the specification: endpoints outside main.py   *)
(* set a ride's status, driver and timestamps directly, and no state       *)
(* machine guards the transitions.                                         *)

DriverIdsAssigned == {"d1", "d9"}

AssignRide ==
    \E i \in DOMAIN rides, d \in DriverIdsAssigned :
        /\ rides' = [rides EXCEPT ![i].status = "assigned",
                                  ![i].driver_id = PyStr(d),
                                  ![i].assigned_at = utcnow]
        /\ UNCHANGED <<users, drivers, passengers, vehicles, fuel_entries,
                       tokens, inflight, last>>
        /\ lifecycle_calls < MaxLifecycleCalls
        /\ lifecycle_calls' = lifecycle_calls + 1

PickUpRide ==
    \E i \in DOMAIN rides :
        /\ rides' = [rides EXCEPT ![i].status = "in_progress",
                                  ![i].picked_up_at = utcnow]
        /\ UNCHANGED <<users, drivers, passengers, vehicles, fuel_entries,
                       tokens, inflight, last>>
        /\ lifecycle_calls < MaxLifecycleCalls
        /\ lifecycle_calls' = lifecycle_calls + 1

CompleteRide ==
    \E i \in DOMAIN rides :
        /\ rides' = [rides EXCEPT ![i].status = "completed",
                                  ![i].completed_at = utcnow]
        /\ UNCHANGED <<users, drivers, passengers, vehicles, fuel_entries,
                       tokens, inflight, last>>
        /\ lifecycle_calls < MaxLifecycleCalls
        /\ lifecycle_calls' = lifecycle_calls + 1

-----------------------------------------------------------------------------
(* The vehicle of a Driver, from the specification: a Driver document      *)
(* carries vehicle attributes (make, model, plate, colour).  main.py       *)
(* creates drivers without them and never writes them; code outside        *)
(* main.py does.                                                           *)

VehicleAttributes ==
    [vehicle_make : {PyNone, PyStr("x")},
     vehicle_model : {PyNone, PyStr(""), PyStr("x")},
     license_plate : {PyNone, PyStr("x")},
     vehicle_color : {PyNone, PyStr("x")}]

\* A driver with all four attributes set.
VehicleAttributesFull ==
    {a \in VehicleAttributes :
        \A k \in DOMAIN a : a[k] = PyStr("x")}

SetDriverVehicle(attributes) ==
    \E i \in DOMAIN drivers, a \in attributes :
        /\ drivers' = [drivers EXCEPT ![i].vehicle_make = a.vehicle_make,
                                      ![i].vehicle_model = a.vehicle_model,
                                      ![i].license_plate = a.license_plate,
                                      ![i].vehicle_color = a.vehicle_color]
        /\ UNCHANGED <<users, passengers, vehicles, fuel_entries, rides,
                       tokens, inflight, last, lifecycle_calls>>

-----------------------------------------------------------------------------
(* The listings.  A handler's result is its response; none of them writes. *)

\* Model.find({field: {"$in": values}}): the datastore keeps a document's id
\* under the key "_id"; a document has no key the model does not list.
find_in(coll, field, values) ==
    SelectSeq(coll, LAMBDA doc : field \in DOMAIN doc /\ PyStr(doc[field]) \in values)

\* Model.get(id), and dict.get(id) on a dict keyed by document id: the list
\* holding the document, or the empty list for None.
get_by_id(docs, id) ==
    LET hits == SelectSeq(docs, LAMBDA doc : PyStr(doc._id) = id)
    IN  IF hits = <<>> THEN <<>> ELSE <<hits[1]>>

\* The rows a loop appends, each iteration giving the list of what it
\* appended.
RECURSIVE Concat(_)
Concat(lists) ==
    IF lists = <<>> THEN <<>> ELSE Head(lists) \o Concat(Tail(lists))

user_dict(user) ==
    [id |-> user._id, name |-> user.name, email |-> user.email,
     role |-> user.role]

\* GET /drivers
get_all_drivers == [status |-> 200, body |-> drivers]

\* GET /passengers
get_all_passengers ==
    LET user_ids == {PyStr(p.user_id) : p \in Range(passengers)}
        found == find_in(users, "_id", user_ids)
        row(p) ==
            LET user == get_by_id(found, PyStr(p.user_id))
            IN  <<[_id |-> p._id, user_id |-> p.user_id,
                   user |-> IF user # <<>> THEN user_dict(user[1])
                            ELSE PyNone]>>
    IN  [status |-> 200, body |-> Concat([i \in DOMAIN passengers |-> row(passengers[i])])]

\* GET /vehicles: the Vehicle documents, then the drivers that have a
\* vehicle.
get_all_vehicles ==
    LET vehicle_row(v) ==
            [id |-> v._id,
             vehicle_make |-> v.vehicle_make,
             vehicle_model |-> v.vehicle_model,
             vehicle_year |-> v.vehicle_year,
             license_plate |-> v.license_plate,
             vehicle_color |-> v.vehicle_color,
             license_number |-> v.license_number,
             license_expiry |-> v.license_expiry]
        driver_row(driver) ==
            IF has_vehicle(driver)
            THEN <<[id |-> driver._id,
                    vehicle_make |-> driver.vehicle_make,
                    vehicle_model |-> driver.vehicle_model,
                    license_plate |-> driver.license_plate,
                    vehicle_color |-> driver.vehicle_color]>>
            ELSE <<>>
    IN  [status |-> 200,
         body |-> [i \in DOMAIN vehicles |-> vehicle_row(vehicles[i])]
                  \o Concat([i \in DOMAIN drivers |-> driver_row(drivers[i])])]

\* GET /fuel-entries: one row per entry; an entry whose row raises is
\* skipped (except ... continue).  The mutant reads the driver's fields
\* without the "if driver" guard.
fuel_row_unguarded(entry) ==
    LET driver == get_by_id(drivers, entry.driver_id)
        user == IF driver # <<>>
                THEN get_by_id(users, PyStr(driver[1].user_id)) ELSE <<>>
    IN  IF driver = <<>> THEN <<>>
        ELSE <<[id |-> entry._id,
                driver_id |-> entry.driver_id,
                driver_name |-> IF user # <<>> THEN PyStr(user[1].name)
                                ELSE PyStr("Unknown"),
                vehicle_make |-> driver[1].vehicle_make,
                license_plate |-> driver[1].license_plate,
                fuel_amount |-> entry.fuel_amount,
                fuel_cost |-> entry.fuel_cost,
                fuel_type |-> entry.fuel_type,
                odometer_reading |-> entry.odometer_reading,
                fuel_station |-> entry.fuel_station,
                date |-> entry.date,
                created_at |-> entry.created_at]>>

fuel_row(entry) ==
    LET driver == get_by_id(drivers, entry.driver_id)
        user == IF driver # <<>>
                THEN get_by_id(users, PyStr(driver[1].user_id)) ELSE <<>>
    IN  <<[id |-> entry._id,
           driver_id |-> entry.driver_id,
           driver_name |-> IF user # <<>> THEN PyStr(user[1].name)
                           ELSE PyStr("Unknown"),
           vehicle_make |-> IF driver # <<>> THEN driver[1].vehicle_make
                            ELSE PyStr("Unknown"),
           license_plate |-> IF driver # <<>> THEN driver[1].license_plate
                             ELSE PyStr("Unknown"),
           fuel_amount |-> entry.fuel_amount,
           fuel_cost |-> entry.fuel_cost,
           fuel_type |-> entry.fuel_type,
           odometer_reading |-> entry.odometer_reading,
           fuel_station |-> entry.fuel_station,
           date |-> entry.date,
           created_at |-> entry.created_at]>>

get_fuel_entries ==
    [status |-> 200,
     body |-> [status |-> "success",
               fuel_entries |->
                   Concat([i \in DOMAIN fuel_entries |->
                              fuel_row(fuel_entries[i])])]]

\* GET /rides?passenger_id=&driver_id=.  The mutant builds its query from
\* passenger_id alone.
get_rides_ignores_driver_id(passenger_id, driver_id) ==
    LET found == SelectSeq(rides, LAMBDA ride :
                     truthy(passenger_id) => ride.passenger_id = passenger_id)
    IN  [status |-> 200,
         body |-> [i \in DOMAIN found |->
                      [ride |-> found[i], driver |-> PyNone,
                       passenger |-> PyNone]]]

\* GET /rides?passenger_id=&driver_id=
get_rides(passenger_id, driver_id) ==
    LET found == SelectSeq(rides, LAMBDA ride :
                     /\ truthy(passenger_id) => ride.passenger_id = passenger_id
                     /\ truthy(driver_id) => ride.driver_id = driver_id)
        driver_ids == {ride.driver_id : ride \in
                          {r \in Range(found) : truthy(r.driver_id)}}
        passenger_ids == {ride.passenger_id : ride \in
                             {r \in Range(found) : truthy(r.passenger_id)}}
        drivers_found == find_in(drivers, "id", driver_ids)
        passengers_found == find_in(passengers, "id", passenger_ids)
        user_ids == {PyStr(d.user_id) : d \in Range(drivers_found)}
                    \cup {PyStr(p.user_id) : p \in Range(passengers_found)}
        users_found == find_in(users, "_id", user_ids)
        with_user(profile) ==
            LET user == get_by_id(users_found, PyStr(profile.user_id))
            IN  [profile |-> profile,
                 user |-> IF user # <<>> THEN user_dict(user[1]) ELSE PyNone]
        row(ride) ==
            LET driver == get_by_id(drivers_found, ride.driver_id)
                passenger == get_by_id(passengers_found, ride.passenger_id)
            IN  <<[ride |-> ride,
                   driver |-> IF driver # <<>> THEN with_user(driver[1])
                              ELSE PyNone,
                   passenger |-> IF passenger # <<>>
                                 THEN with_user(passenger[1]) ELSE PyNone]>>
    IN  [status |-> 200, body |-> Concat([i \in DOMAIN found |-> row(found[i])])]

\* GET /rides/pending
get_pending_rides ==
    [status |-> 200,
     body |-> SelectSeq(rides, LAMBDA ride : ride.status = "requested")]

\* GET /rides/assigned.  The Ride query; the mutant leaves the status out.
assigned_rides_any_status(driver) ==
    SelectSeq(rides, LAMBDA ride : ride.driver_id = PyStr(driver._id))

assigned_rides(driver) ==
    SelectSeq(rides, LAMBDA ride :
        /\ ride.driver_id = PyStr(driver._id)
        /\ ride.status \in {"assigned", "in_progress"})

\* The mutant answers a caller without a Driver document with no rides.
get_assigned_rides_without_404(current_user) ==
    LET driver == SelectSeq(drivers, LAMBDA d : d.user_id = current_user._id)
    IN  IF driver = <<>> THEN [status |-> 200, body |-> <<>>]
        ELSE [status |-> 200, body |-> assigned_rides(driver[1])]

get_assigned_rides(current_user) ==
    LET driver == SelectSeq(drivers, LAMBDA d : d.user_id = current_user._id)
        found == assigned_rides(driver[1])
        passenger_ids == {ride.passenger_id : ride \in
                             {r \in Range(found) : truthy(r.passenger_id)}}
        passengers_found == find_in(passengers, "_id", passenger_ids)
        user_ids == {PyStr(p.user_id) : p \in Range(passengers_found)}
        users_found == find_in(users, "_id", user_ids)
        row(ride) ==
            LET passenger == get_by_id(passengers_found, ride.passenger_id)
                passenger_user ==
                    IF passenger # <<>>
                    THEN get_by_id(users_found, PyStr(passenger[1].user_id))
                    ELSE <<>>
            IN  <<[id |-> ride._id,
                   passenger_id |-> ride.passenger_id,
                   driver_id |-> ride.driver_id,
                   status |-> ride.status,
                   requested_at |-> ride.requested_at,
                   assigned_at |-> ride.assigned_at,
                   picked_up_at |-> ride.picked_up_at,
                   completed_at |-> ride.completed_at,
                   passenger |->
                       IF passenger # <<>>
                       THEN [id |-> passenger[1]._id,
                             user_id |-> passenger[1].user_id,
                             user |-> IF passenger_user # <<>>
                                      THEN user_dict(passenger_user[1])
                                      ELSE PyNone]
                       ELSE PyNone]>>
    IN  IF driver = <<>>
        THEN HTTPException(404, <<"Driver profile not found">>)
        ELSE [status |-> 200,
              body |-> Concat([i \in DOMAIN found |-> row(found[i])])]

\* A listing request: the dependency, then the handler's response.
Listing(route, bearer, resp) ==
    LET auth == depends(route, bearer)
    IN  IF ~auth.ok THEN Rejected(route, auth)
        ELSE /\ last' = [route |-> route, resp |-> resp]
             /\ UNCHANGED <<store, tokens, inflight, lifecycle_calls>>

GetAllDrivers ==
    \E bearer \in Bearers : Listing("GET /drivers", bearer, get_all_drivers)

GetAllPassengers ==
    \E bearer \in Bearers :
        Listing("GET /passengers", bearer, get_all_passengers)

GetAllVehicles ==
    \E bearer \in Bearers : Listing("GET /vehicles", bearer, get_all_vehicles)

GetFuelEntries ==
    \E bearer \in Bearers :
        Listing("GET /fuel-entries", bearer, get_fuel_entries)

PassengerFilters == {PyNone, PyStr(""), PyStr("p1"), PyStr("p9")}

DriverFilters == {PyNone, PyStr(""), PyStr("d1")}

GetRides ==
    \E passenger_id \in PassengerFilters, driver_id \in DriverFilters :
        Listing("GET /rides", NoToken, get_rides(passenger_id, driver_id))

GetPendingRides ==
    \E bearer \in Bearers :
        Listing("GET /rides/pending", bearer, get_pending_rides)

GetAssignedRides ==
    \E bearer \in Bearers :
        LET auth == depends("GET /rides/assigned", bearer)
        IN  IF ~auth.ok THEN Rejected("GET /rides/assigned", auth)
            ELSE /\ last' = [route |-> "GET /rides/assigned",
                             resp |-> get_assigned_rides(auth.user)]
                 /\ UNCHANGED <<store, tokens, inflight, lifecycle_calls>>

-----------------------------------------------------------------------------
(* The /debug/* endpoints.  Each handler runs inside try ... except         *)
(* Exception and takes no dependency.  A request is given the set of the    *)
(* datastore calls that raise while it runs; str(e) of what a call raises   *)
(* is rendered as the call's name.  Fields whose values the model does not  *)
(* keep (phone, rating, the created_at of a User, ...) are left out of the  *)
(* rows.                                                                    *)

\* The calls a handler makes: Model.find_all(), Model.find(query) over a
\* whole collection, Model.get(id) for one document.
FindAll(model) == [call |-> model, op |-> "find_all", arg |-> ""]

Find(model) == [call |-> model, op |-> "find", arg |-> ""]

Get(model, id) == [call |-> model, op |-> "get", arg |-> id]

Models == {"User", "Driver", "Passenger", "Vehicle", "Ride", "FuelEntry"}

\* The calls that may raise: u2 and d1 are the ids of the first user and
\* driver created, d9 is no driver's id.
FaultPoints ==
    {FindAll(m) : m \in Models}
    \cup {Find(m) : m \in {"User", "Driver", "Passenger"}}
    \cup {Get("User", id) : id \in {"u2", "u3"}}
    \cup {Get("Driver", id) : id \in {"d1", "d9"}}

\* What raises during one request: nothing, one call, or one of the pairs
\* in which a second call could change what the first one's failure does.
FaultSets ==
    {{}} \cup {{c} : c \in FaultPoints}
    \cup {{FindAll("Driver"), Get("User", "u2")},
          {FindAll("FuelEntry"), Get("Driver", "d1")},
          {Get("Driver", "d1"), Get("User", "u2")},
          {Get("User", "u2"), Get("User", "u3")}}

\* The first of the calls, in the order the handler makes them, that raises.
FirstRaised(calls, faults) ==
    LET raised == SelectSeq(calls, LAMBDA c : c \in faults)
    IN  IF raised = <<>> THEN <<>> ELSE <<raised[1]>>

\* str(e)
ExceptionMessage(e) == <<e.call, ".", e.op, " failed">>

\* return {"status": "error", "message": str(e)}; the mutant raises an HTTP
\* error in its place.
DebugError_raises(e) == HTTPException(500, ExceptionMessage(e))

DebugError(e) ==
    [status |-> 200,
     body |-> [status |-> "error", message |-> ExceptionMessage(e)]]

\* GET /debug/data
debug_data(faults) ==
    LET e == FirstRaised(<<FindAll("User"), FindAll("Driver"),
                           FindAll("Passenger"), FindAll("Vehicle")>>, faults)
    IN  IF e # <<>> THEN DebugError(e[1])
        ELSE [status |-> 200,
              body |-> [status |-> "success",
                        data |-> [users_count |-> Len(users),
                                  drivers_count |-> Len(drivers),
                                  passengers_count |-> Len(passengers),
                                  vehicles_count |-> Len(vehicles),
                                  users |-> [i \in DOMAIN users |->
                                      user_dict(users[i])],
                                  drivers |-> [i \in DOMAIN drivers |->
                                      [id |-> drivers[i]._id,
                                       user_id |-> drivers[i].user_id,
                                       vehicle_make |-> drivers[i].vehicle_make,
                                       license_plate |-> drivers[i].license_plate]],
                                  passengers |-> [i \in DOMAIN passengers |->
                                      [id |-> passengers[i]._id,
                                       user_id |-> passengers[i].user_id]],
                                  vehicles |-> [i \in DOMAIN vehicles |->
                                      [id |-> vehicles[i]._id,
                                       vehicle_make |-> vehicles[i].vehicle_make,
                                       license_plate |-> vehicles[i].license_plate]]]]]

\* GET /debug/users and GET /debug/users-simple
debug_users(faults) ==
    LET e == FirstRaised(<<FindAll("User")>>, faults)
    IN  IF e # <<>> THEN DebugError(e[1])
        ELSE [status |-> 200,
              body |-> [status |-> "success",
                        users |-> [i \in DOMAIN users |-> user_dict(users[i])]]]

debug_users_simple(faults) ==
    LET e == FirstRaised(<<FindAll("User")>>, faults)
    IN  IF e # <<>> THEN DebugError(e[1])
        ELSE [status |-> 200,
              body |-> [status |-> "success",
                        users |-> [i \in DOMAIN users |-> user_dict(users[i])]]]

\* user.name if user else "Unknown"
name_or_unknown(user) ==
    IF user # <<>> THEN PyStr(user[1].name) ELSE PyStr("Unknown")

\* GET /debug/drivers: a driver whose User.get raises is skipped (the inner
\* except ... continue).
debug_drivers(faults) ==
    LET e == FirstRaised(<<FindAll("Driver")>>, faults)
        row(driver) ==
            LET user == get_by_id(users, PyStr(driver.user_id))
            IN  IF Get("User", driver.user_id) \in faults THEN <<>>
                ELSE <<[id |-> driver._id,
                        user_id |-> driver.user_id,
                        user_name |-> name_or_unknown(user),
                        user_email |-> IF user # <<>> THEN PyStr(user[1].email)
                                       ELSE PyStr("Unknown"),
                        vehicle_make |-> driver.vehicle_make,
                        vehicle_model |-> driver.vehicle_model,
                        license_plate |-> driver.license_plate,
                        vehicle_color |-> driver.vehicle_color]>>
    IN  IF e # <<>> THEN DebugError(e[1])
        ELSE [status |-> 200,
              body |-> [status |-> "success",
                        drivers |-> Concat([i \in DOMAIN drivers |->
                                               row(drivers[i])])]]

\* GET /debug/vehicles: the Vehicle documents, then the drivers that have a
\* vehicle; such a driver is skipped when its User.get raises.
debug_vehicles(faults) ==
    LET e == FirstRaised(<<FindAll("Vehicle"), FindAll("Driver")>>, faults)
        vehicle_row(vehicle) ==
            [id |-> vehicle._id,
             vehicle_make |-> vehicle.vehicle_make,
             vehicle_model |-> vehicle.vehicle_model,
             vehicle_year |-> vehicle.vehicle_year,
             license_plate |-> vehicle.license_plate,
             vehicle_color |-> vehicle.vehicle_color,
             license_number |-> vehicle.license_number,
             license_expiry |-> vehicle.license_expiry]
        driver_row(driver) ==
            IF ~has_vehicle(driver) THEN <<>>
            ELSE IF Get("User", driver.user_id) \in faults THEN <<>>
            ELSE <<[id |-> <<"driver_", driver._id>>,
                    driver_id |-> driver._id,
                    driver_name |->
                        name_or_unknown(get_by_id(users, PyStr(driver.user_id))),
                    vehicle_make |-> driver.vehicle_make,
                    vehicle_model |-> driver.vehicle_model,
                    license_plate |-> driver.license_plate,
                    vehicle_color |-> driver.vehicle_color]>>
    IN  IF e # <<>> THEN DebugError(e[1])
        ELSE [status |-> 200,
              body |-> [status |-> "success",
                        vehicles |->
                            [i \in DOMAIN vehicles |-> vehicle_row(vehicles[i])]
                            \o Concat([i \in DOMAIN drivers |->
                                          driver_row(drivers[i])])]]

\* GET /debug/rides
debug_rides(faults) ==
    LET e == FirstRaised(<<FindAll("Ride")>>, faults)
    IN  IF e # <<>> THEN DebugError(e[1])
        ELSE [status |-> 200,
              body |-> [status |-> "success",
                        rides |-> [i \in DOMAIN rides |->
                            [id |-> rides[i]._id,
                             passenger_id |-> rides[i].passenger_id,
                             driver_id |-> rides[i].driver_id,
                             status |-> rides[i].status,
                             requested_at |-> rides[i].requested_at,
                             assigned_at |-> rides[i].assigned_at,
                             picked_up_at |-> rides[i].picked_up_at,
                             completed_at |-> rides[i].completed_at]]]]

\* GET /debug/fuel-entries: an entry is skipped when Driver.get raises, or
\* when the driver is found and User.get raises.
debug_fuel_entries(faults) ==
    LET e == FirstRaised(<<FindAll("FuelEntry")>>, faults)
        row(entry) ==
            LET driver == get_by_id(drivers, entry.driver_id)
            IN  IF Get("Driver", entry.driver_id.v) \in faults THEN <<>>
                ELSE IF driver # <<>> /\ Get("User", driver[1].user_id) \in faults
                THEN <<>>
                ELSE fuel_row(entry)
    IN  IF e # <<>> THEN DebugError(e[1])
        ELSE [status |-> 200,
              body |-> [status |-> "success",
                        fuel_entries |->
                            Concat([i \in DOMAIN fuel_entries |->
                                       row(fuel_entries[i])])]]

\* GET /debug/rides-with-details: the referenced documents are fetched by
\* "_id"; the error body also carries "rides": [].
debug_get_rides_with_details(faults) ==
    LET e == FirstRaised(<<FindAll("Ride"), Find("Passenger"), Find("Driver"),
                           Find("User")>>, faults)
        passenger_ids == {ride.passenger_id : ride \in
                             {r \in Range(rides) : truthy(r.passenger_id)}}
        driver_ids == {ride.driver_id : ride \in
                          {r \in Range(rides) : truthy(r.driver_id)}}
        passengers_found == find_in(passengers, "_id", passenger_ids)
        drivers_found == find_in(drivers, "_id", driver_ids)
        all_user_ids == {PyStr(p.user_id) : p \in Range(passengers_found)}
                        \cup {PyStr(d.user_id) : d \in Range(drivers_found)}
        users_found == find_in(users, "_id", all_user_ids)
        user_of(profile) ==
            LET user == get_by_id(users_found, PyStr(profile.user_id))
            IN  IF user # <<>> THEN user_dict(user[1]) ELSE PyNone
        row(ride) ==
            LET passenger == get_by_id(passengers_found, ride.passenger_id)
                driver == IF truthy(ride.driver_id)
                          THEN get_by_id(drivers_found, ride.driver_id)
                          ELSE <<>>
            IN  [id |-> ride._id,
                 passenger_id |-> ride.passenger_id,
                 driver_id |-> ride.driver_id,
                 status |-> ride.status,
                 requested_at |-> ride.requested_at,
                 assigned_at |-> ride.assigned_at,
                 picked_up_at |-> ride.picked_up_at,
                 completed_at |-> ride.completed_at,
                 passenger |->
                     IF passenger # <<>>
                     THEN [id |-> passenger[1]._id,
                           user_id |-> passenger[1].user_id,
                           user |-> user_of(passenger[1])]
                     ELSE PyNone,
                 driver |->
                     IF driver # <<>>
                     THEN [id |-> driver[1]._id,
                           user_id |-> driver[1].user_id,
                           vehicle_make |-> driver[1].vehicle_make,
                           vehicle_model |-> driver[1].vehicle_model,
                           license_plate |-> driver[1].license_plate,
                           user |-> user_of(driver[1])]
                     ELSE PyNone]
    IN  IF e # <<>>
        THEN [status |-> 200,
              body |-> [status |-> "error",
                        message |-> ExceptionMessage(e[1]),
                        rides |-> <<>>]]
        ELSE [status |-> 200,
              body |-> [status |-> "success",
                        rides |-> [i \in DOMAIN rides |-> row(rides[i])],
                        total |-> Len(rides)]]

\* A debug request: no dependency, the handler's response, no write.
Debug(route, resp) ==
    /\ last' = [route |-> route, resp |-> resp]
    /\ UNCHANGED <<store, tokens, inflight, lifecycle_calls>>

DebugData ==
    \E faults \in FaultSets : Debug("GET /debug/data", debug_data(faults))

DebugUsers ==
    \E faults \in FaultSets : Debug("GET /debug/users", debug_users(faults))

DebugUsersSimple ==
    \E faults \in FaultSets :
        Debug("GET /debug/users-simple", debug_users_simple(faults))

DebugDrivers ==
    \E faults \in FaultSets : Debug("GET /debug/drivers", debug_drivers(faults))

DebugVehicles ==
    \E faults \in FaultSets :
        Debug("GET /debug/vehicles", debug_vehicles(faults))

DebugRides ==
    \E faults \in FaultSets : Debug("GET /debug/rides", debug_rides(faults))

DebugFuelEntries ==
    \E faults \in FaultSets :
        Debug("GET /debug/fuel-entries", debug_fuel_entries(faults))

DebugRidesWithDetails ==
    \E faults \in FaultSets :
        Debug("GET /debug/rides-with-details",
              debug_get_rides_with_details(faults))

-----------------------------------------------------------------------------

NoResponse == [route |-> "", resp |-> [status |-> 0]]

Init ==
    /\ users = <<DefaultAdmin>>
    /\ drivers = <<>>
    /\ passengers = <<>>
    /\ vehicles = <<>>
    /\ fuel_entries = <<>>
    /\ rides = <<>>
    /\ tokens = {}
    /\ inflight = EmptyBag
    /\ last = NoResponse
    /\ lifecycle_calls = 0

\* POST /auth/login and the three account-creating endpoints.
Accounts ==
    \/ Login
    \/ CreateUserFind
    \/ CreateUserInsert
    \/ CreateDriverFind
    \/ CreatePassengerFind
    \/ CreateProfileUserInsert
    \/ CreateDriverInsert
    \/ CreatePassengerInsert
    \/ Crash

\* The endpoints of main.py that write.
Writes ==
    \/ Accounts
    \/ CreateVehicle(VehicleBodiesCore)
    \/ CreateFuelEntry(FuelBodiesCore)
    \/ CreateRide

\* The listings of main.py.
Listings ==
    \/ GetAllDrivers
    \/ GetAllPassengers
    \/ GetAllVehicles
    \/ GetFuelEntries
    \/ GetRides
    \/ GetPendingRides
    \/ GetAssignedRides

\* The /debug endpoints of main.py.
DebugEndpoints ==
    \/ DebugData
    \/ DebugUsers
    \/ DebugUsersSimple
    \/ DebugDrivers
    \/ DebugVehicles
    \/ DebugRides
    \/ DebugFuelEntries
    \/ DebugRidesWithDetails

\* The ride lifecycle endpoints outside main.py.
Lifecycle ==
    \/ AssignRide
    \/ PickUpRide
    \/ CompleteRide

\* The endpoints of main.py.
Next ==
    \/ Writes
    \/ Listings
    \/ DebugEndpoints

Spec == Init /\ [][Next]_vars

\* The system restricted to some of its endpoints: every behaviour of one
\* of these is a behaviour of the whole, and each keeps every endpoint that
\* writes what its listings and checks read.

SpecAccounts == Init /\ [][Accounts]_vars

SpecWrites == Init /\ [][Writes]_vars

NextVehicles ==
    \/ Login
    \/ CreateVehicle(VehicleBodies)

SpecVehicles == Init /\ [][NextVehicles]_vars

NextFuel ==
    \/ Login
    \/ CreateFuelEntry(FuelBodies)

SpecFuel == Init /\ [][NextFuel]_vars

\* POST /vehicles and POST /fuel-entries with the bodies of the full system
\* and the bodies that hold a falsy value.
NextRequiredFields ==
    \/ Login
    \/ CreateVehicle(VehicleBodiesCore \cup VehicleBodiesFalsy)
    \/ CreateFuelEntry(FuelBodiesCore \cup FuelBodiesFalsy)

SpecRequiredFields == Init /\ [][NextRequiredFields]_vars

\* Drivers and users, rides and their lifecycle, and the driver's listing.
NextRides ==
    \/ Login
    \/ CreateUserFind
    \/ CreateUserInsert
    \/ CreateDriverFind
    \/ CreateProfileUserInsert
    \/ CreateDriverInsert
    \/ Crash
    \/ CreateRide
    \/ Lifecycle
    \/ GetAssignedRides

SpecRides == Init /\ [][NextRides]_vars

\* Drivers and passengers and their two listings.
NextProfiles ==
    \/ Login
    \/ CreateDriverFind
    \/ CreatePassengerFind
    \/ CreateProfileUserInsert
    \/ CreateDriverInsert
    \/ CreatePassengerInsert
    \/ Crash
    \/ GetAllDrivers
    \/ GetAllPassengers

SpecProfiles == Init /\ [][NextProfiles]_vars

\* The /debug endpoints over what the creating endpoints store.
NextDebug ==
    \/ Login
    \/ CreateDriverFind
    \/ CreateProfileUserInsert
    \/ CreateDriverInsert
    \/ CreateVehicle(VehicleBodiesCore)
    \/ CreateFuelEntry(FuelBodiesCore)
    \/ CreateRide
    \/ SetDriverVehicle(VehicleAttributesFull)
    \/ DebugEndpoints

SpecDebug == Init /\ [][NextDebug]_vars

\* Vehicles, drivers and their vehicle attributes, and GET /vehicles.
NextVehicleListing ==
    \/ Login
    \/ CreateDriverFind
    \/ CreateProfileUserInsert
    \/ CreateDriverInsert
    \/ CreateVehicle(VehicleBodiesCore)
    \/ SetDriverVehicle(VehicleAttributes)
    \/ GetAllVehicles

SpecVehicleListing == Init /\ [][NextVehicleListing]_vars

\* Drivers and passengers, fuel entries, rides and their lifecycle, and the
\* listings that hydrate references.
NextListings ==
    \/ Login
    \/ CreateDriverFind
    \/ CreatePassengerFind
    \/ CreateProfileUserInsert
    \/ CreateDriverInsert
    \/ CreatePassengerInsert
    \/ CreateFuelEntry(FuelBodiesCore)
    \/ CreateRide
    \/ Lifecycle
    \/ GetFuelEntries
    \/ GetAllPassengers
    \/ GetRides
    \/ GetAssignedRides

SpecListings == Init /\ [][NextListings]_vars

-----------------------------------------------------------------------------
(* POST /auth/login                                                        *)

\* The stored User a submitted email names: find_one's document, the first
\* inserted of those with the email.
StoredUser(email) ==
    LET held == {i \in DOMAIN users : users[i].email = email}
    IN  IF held = {} THEN <<>>
        ELSE <<users[CHOOSE i \in held : \A j \in held : i <= j]>>

\* C1: login answers credentials whose email names a stored User and whose
\* password verifies against that User's hash with access_token, token_type
\* "bearer" and the user; it answers every other credentials with 401 and
\* no token; and every token issued names a stored User's email.
C1_LoginTokenOr401 ==
    /\ \A c \in Credentials :
           LET stored == StoredUser(c.email)
               r == login(c)
           IN  IF /\ stored # <<>>
                  /\ verify_password(c.password, stored[1].password_hash)
               THEN /\ r.status = 200
                    /\ r.access_token = create_access_token(c.email)
                    /\ r.token_type = "bearer"
                    /\ r.user = stored[1]
               ELSE /\ r.status = 401
                    /\ "access_token" \notin DOMAIN r
    /\ \A t \in tokens : StoredUser(t.sub) # <<>>
    /\ last.route = "POST /auth/login" =>
           \/ last.resp.status = 401 /\ "access_token" \notin DOMAIN last.resp
           \/ /\ last.resp.status = 200
              /\ last.resp.access_token \in tokens
              /\ StoredUser(last.resp.user.email) = <<last.resp.user>>

\* A user created with the default password has logged in.
C1_Witness ==
    /\ last.route = "POST /auth/login"
    /\ last.resp.status = 200
    /\ last.resp.user.email = "ann@x"
    /\ last.resp.access_token = create_access_token("ann@x")

-----------------------------------------------------------------------------
(* Duplicate emails                                                        *)

EmailExists(email) == \E u \in Range(users) : u.email = email

\* Some caller's request passes the route's dependency and reaches the
\* handler.
Admitted(route) == \E bearer \in Bearers : depends(route, bearer).ok

DuplicateEmail400(step) ==
    /\ step.done
    /\ step.resp.status = 400

\* C2: on POST /users, POST /drivers and POST /passengers, a request whose
\* email a stored User already has when the handler runs its check is
\* answered 400.
C2_DuplicateEmailIs400 ==
    /\ \A user_data \in UserBodies :
           Admitted("POST /users") /\ EmailExists(user_data.email) =>
               DuplicateEmail400(create_user_find(user_data))
    /\ \A profile_data \in ProfileBodies :
           /\ Admitted("POST /drivers") /\ EmailExists(profile_data.user.email)
                  => DuplicateEmail400(create_driver_find(profile_data))
           /\ Admitted("POST /passengers")
                  /\ EmailExists(profile_data.user.email)
                  => DuplicateEmail400(create_passenger_find(profile_data))

\* An admin's POST /drivers with an email ann@x already has was answered 400.
C2_Witness ==
    /\ last.route = "POST /drivers"
    /\ last.resp.status = 400
    /\ EmailExists("ann@x")

\* C3: no two User documents have the same email.
C3_UniqueEmail ==
    \A i, j \in DOMAIN users : users[i].email = users[j].email => i = j

-----------------------------------------------------------------------------
(* Admin-only creation                                                     *)

AdminOnlyRoutes ==
    {"POST /users", "POST /drivers", "POST /passengers", "POST /vehicles",
     "POST /fuel-entries"}

\* Every Authorization header: none, or a token for an email, issued or not.
AnyBearer == {NoToken} \cup {create_access_token(e) : e \in Emails}

\* The caller is an authenticated admin: the token was issued by login and
\* names a stored User whose role is admin.
IsAdminBearer(bearer) ==
    /\ bearer \in tokens
    /\ StoredUser(bearer.sub) # <<>>
    /\ StoredUser(bearer.sub)[1].role = "admin"

NothingInserted ==
    /\ users = <<DefaultAdmin>>
    /\ drivers = <<>> /\ passengers = <<>>
    /\ vehicles = <<>> /\ fuel_entries = <<>>
    /\ inflight = EmptyBag

\* C4: on the five admin-only POST routes a caller who is not an
\* authenticated admin is rejected (401 or 403) before the handler runs;
\* a rejected request leaves every collection as it was; and as long as no
\* admin has logged in, no sequence of requests has inserted a document
\* through these routes.
C4_AdminOnly ==
    /\ [](\A route \in AdminOnlyRoutes, bearer \in AnyBearer :
              ~IsAdminBearer(bearer) =>
                  /\ ~depends(route, bearer).ok
                  /\ depends(route, bearer).status \in {401, 403})
    /\ []((\A t \in tokens : ~IsAdminBearer(t)) => NothingInserted)
    /\ [][(/\ last' # last
           /\ last'.route \in AdminOnlyRoutes
           /\ last'.resp.status \in {401, 403})
          => /\ store' = store
             /\ inflight' = inflight]_vars

\* A logged-in user who is no admin was refused on POST /fuel-entries.
C4_Witness ==
    /\ last.route = "POST /fuel-entries"
    /\ last.resp.status = 403
    /\ \E t \in tokens : ~IsAdminBearer(t)
    /\ fuel_entries = <<>>

-----------------------------------------------------------------------------
(* POST /vehicles                                                          *)

C5_RequiredFields ==
    {"vehicle_make", "vehicle_model", "vehicle_year", "license_plate",
     "vehicle_color", "license_number", "license_expiry"}

\* C5: for an admin, the handler answers every body that lacks one of the seven required
\* fields with 400 and inserts nothing, whatever the other fields hold.
C5_MissingFieldIs400 ==
    Admitted("POST /vehicles") =>
        \A vehicle_data \in VehicleBodies :
            (\E field \in C5_RequiredFields : field \notin DOMAIN vehicle_data)
            => /\ create_vehicle(vehicle_data).resp.status = 400
               /\ create_vehicle(vehicle_data).inserted = <<>>

\* An admin's body without license_expiry, the last field checked, was
\* answered 400.
C5_Witness ==
    /\ last.route = "POST /vehicles"
    /\ last.resp.status = 400
    /\ last.resp.detail = <<"Missing required field: ", "license_expiry">>

\* The calendar the license_expiry texts are read against: the days of the
\* years the texts name.
CalendarDays(month, year) ==
    IF month = 2 THEN (IF year = 2024 THEN 29 ELSE 28)
    ELSE <<31, 0, 31, 30, 31, 30, 31, 31, 30, 31, 30, 31>>[month]

ExistingDates ==
    {d \in [year : {2023, 2024, 2025}, month : 1..12, day : 1..31] :
        d.day <= CalendarDays(d.month, d.year)}

\* A number as the text writes it: two digits, no padding, or padded with
\* a space; a year in four digits.
Pad2(n) == <<Digits[(n \div 10) + 1], Digits[(n % 10) + 1]>>

Unpadded(n) == IF n < 10 THEN <<Digits[n + 1]>> ELSE Pad2(n)

SpacePadded(n) == IF n < 10 THEN <<" ", Digits[n + 1]>> ELSE Pad2(n)

Year4(n) == Pad2(n \div 100) \o Pad2(n % 100)

\* DD-MM-YYYY: two digits, two digits, four digits.
WrittenDDMMYYYY(d) ==
    Pad2(d.day) \o <<"-">> \o Pad2(d.month) \o <<"-">> \o Year4(d.year)

\* The spellings of a date the handler takes: day and month with or without
\* the leading zero, the day also with a space in its place.
AcceptedSpellings(d) ==
    {dd \o <<"-">> \o mm \o <<"-">> \o Year4(d.year) :
        dd \in {Pad2(d.day), Unpadded(d.day), SpacePadded(d.day)},
        mm \in {Pad2(d.month), Unpadded(d.month)}}

\* For each text tried, the dates it denotes under each reading.
StrictlyDenotes ==
    [text \in ExpiryTexts |->
        {d \in ExistingDates : text = WrittenDDMMYYYY(d)}]

LenientlyDenotes ==
    [text \in ExpiryTexts |->
        {d \in ExistingDates : text \in AcceptedSpellings(d)}]

\* The bodies that carry all seven fields, license_expiry as one of the
\* texts tried.
BodiesWithExpiryText ==
    {b \in VehicleBodies :
        /\ C5_RequiredFields \subseteq DOMAIN b
        /\ b["license_expiry"].t = "chars"
        /\ b["license_expiry"].v \in ExpiryTexts}

\* What the claim asks of the handler, for a reading of "valid DD-MM-YYYY":
\* a text denoting a date is never refused as malformed, and the Vehicle
\* created from it carries that date as day, month and year; a text
\* denoting no date is answered 400 and nothing is inserted.
ExpiryHandledAs(denotes) ==
    Admitted("POST /vehicles") => \A b \in BodiesWithExpiryText :
        LET r == create_vehicle(b)
            dates == denotes[b["license_expiry"].v]
        IN  IF dates # {}
            THEN /\ r.resp # HTTPException(400,
                        <<"license_expiry must be in DD-MM-YYYY format">>)
                 /\ truthy(b["vehicle_year"]) /\ int(b["vehicle_year"]).ok
                        => r.resp.status = 200
                 /\ r.resp.status = 200 =>
                        \E d \in dates :
                            /\ r.inserted = <<r.resp.body>>
                            /\ r.resp.body.license_expiry =
                                   datetime(d.year, d.month, d.day)
            ELSE /\ r.resp.status = 400
                 /\ r.inserted = <<>>

\* C6 (as amended): with all required fields present, a license_expiry
\* string that writes an existing date as day-month-year, the day and the
\* month with or without their leading zero (the day's zero possibly a
\* space) and the year in four digits, is stored on the created Vehicle as
\* that date; every other string is answered 400.
C6_ExpiryParsedLeniently == ExpiryHandledAs(LenientlyDenotes)

\* C6 (as claimed): only the two-digit, two-digit, four-digit spelling of
\* an existing date is valid, and every other string is answered 400.
C6_ExpiryStrictDDMMYYYY == ExpiryHandledAs(StrictlyDenotes)

\* An admin's vehicle with license_expiry "1-2-2025" was created, expiring
\* on 1 February 2025.
C6_Witness ==
    /\ last.route = "POST /vehicles"
    /\ last.resp.status = 200
    /\ last.resp.body.license_expiry = datetime(2025, 2, 1)
    /\ last.resp.body \in Range(vehicles)

-----------------------------------------------------------------------------
(* Rides                                                                   *)

\* C7: whatever the body of POST /rides holds, its own status or driver_id
\* included, the handler builds a ride with status "requested" and a
\* requested_at timestamp, and every ride a step adds to the store has both.
C7_RideStoredRequested ==
    /\ [](\A ride_data \in RideBodies :
              /\ create_ride(ride_data).status = "requested"
              /\ create_ride(ride_data).requested_at = utcnow)
    /\ [][\A i \in DOMAIN rides' :
              i \notin DOMAIN rides =>
                  /\ rides'[i].status = "requested"
                  /\ rides'[i].requested_at = utcnow]_vars

\* POST /rides has stored the ride it answered with.
C7_Witness ==
    /\ last.route = "POST /rides"
    /\ last.resp.status = 200
    /\ last.resp.body \in Range(rides)
    /\ last.resp.body.status = "requested"

\* The Driver documents of a user, and the rides GET /rides/assigned owes
\* that user: assigned or in progress, with a driver_id that is the id of
\* one of them.
DriverProfilesOf(user) == {d \in Range(drivers) : d.user_id = user._id}

OwnActiveRides(user) ==
    {i \in DOMAIN rides :
        /\ rides[i].status \in {"assigned", "in_progress"}
        /\ \E d \in DriverProfilesOf(user) : rides[i].driver_id = PyStr(d._id)}

\* C8: for a driver user with a Driver profile GET /rides/assigned answers
\* with exactly the rides that are assigned or in progress and carry that
\* profile's id as driver_id: each of them once, and no other ride.
C8_OwnActiveRidesOnly ==
    \A user \in Range(users) :
        user.role = "driver" /\ DriverProfilesOf(user) # {} =>
            LET r == get_assigned_rides(user)
            IN  /\ r.status = 200
                /\ Len(r.body) = Cardinality(OwnActiveRides(user))
                /\ {row.id : row \in Range(r.body)} =
                       {rides[i]._id : i \in OwnActiveRides(user)}
                /\ \A row \in Range(r.body) :
                       /\ row.status \in {"assigned", "in_progress"}
                       /\ \E d \in DriverProfilesOf(user) :
                              row.driver_id = PyStr(d._id)

\* A driver was answered with a ride of theirs.
C8_Witness ==
    /\ last.route = "GET /rides/assigned"
    /\ last.resp.status = 200
    /\ last.resp.body # <<>>

\* C9: for a driver-role user with no Driver document GET /rides/assigned
\* answers 404 and carries no rides.
C9_NoProfileIs404 ==
    \A user \in Range(users) :
        user.role = "driver" /\ DriverProfilesOf(user) = {} =>
            /\ get_assigned_rides(user).status = 404
            /\ "body" \notin DOMAIN get_assigned_rides(user)

\* A logged-in driver-role user without a Driver document was answered 404.
C9_Witness ==
    /\ last.route = "GET /rides/assigned"
    /\ last.resp.status = 404
    /\ \E user \in Range(users) :
           /\ user.role = "driver"
           /\ DriverProfilesOf(user) = {}
           /\ create_access_token(user.email) \in tokens

-----------------------------------------------------------------------------
(* Hydrating listings                                                      *)

\* No document of the collection has the id the reference holds.
Dangling(ref, coll) == \A doc \in Range(coll) : PyStr(doc._id) # ref

FuelEntriesAllListed ==
    LET r == get_fuel_entries
    IN  /\ r.status = 200
        /\ r.body.status = "success"
        /\ Len(r.body.fuel_entries) = Len(fuel_entries)
        /\ \A i \in DOMAIN fuel_entries :
               LET entry == fuel_entries[i]
                   row == r.body.fuel_entries[i]
               IN  /\ row.id = entry._id
                   /\ Dangling(entry.driver_id, drivers) =>
                          /\ row.driver_name = PyStr("Unknown")
                          /\ row.vehicle_make = PyStr("Unknown")
                          /\ row.license_plate = PyStr("Unknown")

PassengersAllListed ==
    LET r == get_all_passengers
    IN  /\ r.status = 200
        /\ Len(r.body) = Len(passengers)
        /\ \A i \in DOMAIN passengers :
               /\ r.body[i]._id = passengers[i]._id
               /\ Dangling(PyStr(passengers[i].user_id), users) =>
                      r.body[i].user = PyNone

AssignedRidesAllListed ==
    \A user \in Range(users) :
        user.role = "driver" /\ DriverProfilesOf(user) # {} =>
            LET r == get_assigned_rides(user)
            IN  /\ r.status = 200
                /\ {row.id : row \in Range(r.body)} =
                       {rides[i]._id : i \in OwnActiveRides(user)}
                /\ \A row \in Range(r.body) :
                       Dangling(row.passenger_id, passengers) =>
                           row.passenger = PyNone

RidesAllListed ==
    \A passenger_id \in PassengerFilters, driver_id \in DriverFilters :
        LET r == get_rides(passenger_id, driver_id)
            asked == {i \in DOMAIN rides :
                         /\ passenger_id \in {PyNone, PyStr("")}
                                \/ rides[i].passenger_id = passenger_id
                         /\ driver_id \in {PyNone, PyStr("")}
                                \/ rides[i].driver_id = driver_id}
        IN  /\ r.status = 200
            /\ Len(r.body) = Cardinality(asked)
            /\ {row.ride : row \in Range(r.body)} = {rides[i] : i \in asked}
            /\ \A row \in Range(r.body) :
                   /\ Dangling(row.ride.driver_id, drivers) =>
                          row.driver = PyNone
                   /\ Dangling(row.ride.passenger_id, passengers) =>
                          row.passenger = PyNone

\* C10: GET /fuel-entries, GET /passengers, GET /rides/assigned and
\* GET /rides answer 200 whatever references dangle, list every primary
\* record they select, and give "Unknown" or null where the referenced
\* Driver, Passenger or User does not exist.
C10_DanglingReferencesTolerated ==
    /\ FuelEntriesAllListed
    /\ PassengersAllListed
    /\ AssignedRidesAllListed
    /\ RidesAllListed

\* GET /fuel-entries listed an entry whose driver does not exist, under
\* the name "Unknown".
C10_Witness ==
    /\ last.route = "GET /fuel-entries"
    /\ last.resp.status = 200
    /\ \E i \in DOMAIN fuel_entries :
           /\ Dangling(fuel_entries[i].driver_id, drivers)
           /\ i \in DOMAIN last.resp.body.fuel_entries
           /\ last.resp.body.fuel_entries[i].id = fuel_entries[i]._id
           /\ last.resp.body.fuel_entries[i].driver_name = PyStr("Unknown")

-----------------------------------------------------------------------------
(* GET /rides                                                              *)

\* A filter is supplied when the query string gives it a non-empty value.
Supplied(filter) == filter # PyNone /\ filter # PyStr("")

\* The stored rides a pair of filters asks for, by position in the store.
RidesAskedFor(passenger_id, driver_id) ==
    {i \in DOMAIN rides :
        /\ Supplied(passenger_id) => rides[i].passenger_id = passenger_id
        /\ Supplied(driver_id) => rides[i].driver_id = driver_id}

\* C11: for every pair of filters GET /rides answers 200 with exactly the
\* stored rides that match every filter supplied, each once: only rides of
\* the passenger when passenger_id is given, only rides of the driver when
\* driver_id is given, both when both are, and all rides when neither is
\* given or the value is the empty string.
C11_RidesMatchFilters ==
    \A passenger_id \in PassengerFilters, driver_id \in DriverFilters :
        LET r == get_rides(passenger_id, driver_id)
            asked == RidesAskedFor(passenger_id, driver_id)
        IN  /\ r.status = 200
            /\ Len(r.body) = Cardinality(asked)
            /\ \A i \in asked : \E k \in DOMAIN r.body : r.body[k].ride = rides[i]
            /\ \A k \in DOMAIN r.body :
                   /\ \E i \in asked : r.body[k].ride = rides[i]
                   /\ Supplied(passenger_id) =>
                          r.body[k].ride.passenger_id = passenger_id
                   /\ Supplied(driver_id) =>
                          r.body[k].ride.driver_id = driver_id
            /\ ~Supplied(passenger_id) /\ ~Supplied(driver_id) =>
                   Len(r.body) = Len(rides)

\* GET /rides answered with some of the stored rides and not all of them,
\* one of them a ride that has a driver.
C11_Witness ==
    /\ last.route = "GET /rides"
    /\ last.resp.status = 200
    /\ last.resp.body # <<>>
    /\ Len(last.resp.body) < Len(rides)
    /\ \A k \in DOMAIN last.resp.body :
           last.resp.body[k].ride.driver_id = PyStr("d1")

\* The stored User a profile's user_id names, as the response renders it,
\* or null.
UserOf(profile) ==
    LET held == {u \in Range(users) : u._id = profile.user_id}
    IN  IF held = {} THEN PyNone ELSE user_dict(CHOOSE u \in held : TRUE)

\* C12: for every pair of filters, every ride GET /rides returns whose
\* driver_id is the id of a stored Driver carries that Driver with its User
\* attached, and every ride whose passenger_id is the id of a stored
\* Passenger carries that Passenger with its User attached.
C12_RidesHydrated ==
    \A passenger_id \in PassengerFilters, driver_id \in DriverFilters :
        LET r == get_rides(passenger_id, driver_id)
        IN  \A k \in DOMAIN r.body :
                LET row == r.body[k]
                IN  /\ \A d \in Range(drivers) :
                           row.ride.driver_id = PyStr(d._id) =>
                               /\ row.driver # PyNone
                               /\ row.driver.profile = d
                               /\ row.driver.user = UserOf(d)
                    /\ \A p \in Range(passengers) :
                           row.ride.passenger_id = PyStr(p._id) =>
                               /\ row.passenger # PyNone
                               /\ row.passenger.profile = p
                               /\ row.passenger.user = UserOf(p)

-----------------------------------------------------------------------------
(* GET /drivers and GET /passengers                                        *)

\* The row of a listing carries the data of the stored User its user_id
\* refers to, when there is one.
CarriesItsUser(row) ==
    (\E u \in Range(users) : u._id = row.user_id) =>
        /\ "user" \in DOMAIN row
        /\ row.user = UserOf(row)

\* GET /passengers alone: every passenger listed carries its User.
PassengersCarryUser ==
    \A k \in DOMAIN get_all_passengers.body :
        CarriesItsUser(get_all_passengers.body[k])

\* C13: every driver GET /drivers returns and every passenger
\* GET /passengers returns, whose user_id refers to a stored User, carries
\* that User's data.
C13_ProfilesCarryUser ==
    /\ \A k \in DOMAIN get_all_drivers.body :
           CarriesItsUser(get_all_drivers.body[k])
    /\ PassengersCarryUser

-----------------------------------------------------------------------------
(* POST /drivers and POST /passengers: the two inserts                     *)

ProfileRole(route) == IF route = "POST /drivers" THEN "driver" ELSE "passenger"

\* A User of role driver or passenger that no Driver and no Passenger
\* document references and whose profile no request is about to insert.
Orphans ==
    {u \in Range(users) :
        /\ u.role \in {"driver", "passenger"}
        /\ \A d \in Range(drivers) : d.user_id # u._id
        /\ \A p \in Range(passengers) : p.user_id # u._id
        /\ ~PendingProfile(u)}

\* C14: the profile is inserted in a step of its own, after the User's (the
\* User a new Driver or Passenger references is already stored); a request
\* that ends between the two inserts leaves its User orphaned; and no step
\* removes or changes a stored User or gives an orphaned User a profile.
C14_OrphanedUserStays ==
    [][/\ \A i \in DOMAIN drivers' :
              i \notin DOMAIN drivers =>
                  \E u \in Range(users) : u._id = drivers'[i].user_id
       /\ \A i \in DOMAIN passengers' :
              i \notin DOMAIN passengers =>
                  \E u \in Range(users) : u._id = passengers'[i].user_id
       /\ \A q \in BagToSet(inflight) :
              /\ q.pc = "insert_profile"
              /\ CopiesIn(q, inflight') < CopiesIn(q, inflight)
              /\ drivers' = drivers /\ passengers' = passengers
              => \E u \in Orphans' :
                     u._id = q.user_id /\ u.role = ProfileRole(q.route)
       /\ \A i \in DOMAIN users : i \in DOMAIN users' /\ users'[i] = users[i]
       /\ Orphans \subseteq Orphans']_vars

\* After a crash between the two inserts of POST /passengers the User is
\* stored without a Passenger, no request is left to insert one, and the
\* server has answered a later GET /passengers.
C14_Witness ==
    /\ inflight = EmptyBag
    /\ \E u \in Orphans : u.role = "passenger"
    /\ last.route = "GET /passengers"
    /\ last.resp.status = 200

-----------------------------------------------------------------------------
(* POST /fuel-entries                                                      *)

C15_RequiredFields ==
    {"driver_id", "fuel_amount", "fuel_cost", "fuel_type", "odometer_reading"}

\* C15: for an admin, the handler answers every body that lacks one of the
\* five required fields with 400, and answers 500 to no such body.
C15_FuelMissingFieldIs400 ==
    Admitted("POST /fuel-entries") =>
        \A fuel_data \in FuelBodies :
            (\E field \in C15_RequiredFields : field \notin DOMAIN fuel_data)
            => /\ create_fuel_entry(fuel_data).resp.status = 400
               /\ create_fuel_entry(fuel_data).inserted = <<>>

-----------------------------------------------------------------------------
(* The /debug/* endpoints                                                  *)

DebugRoutes ==
    {"GET /debug/data", "GET /debug/users", "GET /debug/users-simple",
     "GET /debug/drivers", "GET /debug/vehicles", "GET /debug/rides",
     "GET /debug/fuel-entries", "GET /debug/rides-with-details"}

DebugResponse(route, faults) ==
    CASE route = "GET /debug/data"         -> debug_data(faults)
      [] route = "GET /debug/users"        -> debug_users(faults)
      [] route = "GET /debug/users-simple" -> debug_users_simple(faults)
      [] route = "GET /debug/drivers"      -> debug_drivers(faults)
      [] route = "GET /debug/vehicles"     -> debug_vehicles(faults)
      [] route = "GET /debug/rides"        -> debug_rides(faults)
      [] route = "GET /debug/fuel-entries" -> debug_fuel_entries(faults)
      [] route = "GET /debug/rides-with-details" ->
             debug_get_rides_with_details(faults)

\* The reads over whole collections a handler makes, in its order.
CollectionReads(route) ==
    CASE route = "GET /debug/data" ->
             <<FindAll("User"), FindAll("Driver"), FindAll("Passenger"),
               FindAll("Vehicle")>>
      [] route \in {"GET /debug/users", "GET /debug/users-simple"} ->
             <<FindAll("User")>>
      [] route = "GET /debug/drivers"      -> <<FindAll("Driver")>>
      [] route = "GET /debug/vehicles"     ->
             <<FindAll("Vehicle"), FindAll("Driver")>>
      [] route = "GET /debug/rides"        -> <<FindAll("Ride")>>
      [] route = "GET /debug/fuel-entries" -> <<FindAll("FuelEntry")>>
      [] route = "GET /debug/rides-with-details" ->
             <<FindAll("Ride"), Find("Passenger"), Find("Driver"),
               Find("User")>>

\* The items a handler lists when nothing raises, each with the reads of
\* single documents the handler makes for it.
ItemReads(route) ==
    CASE route = "GET /debug/drivers" ->
             [i \in DOMAIN drivers |-> {Get("User", drivers[i].user_id)}]
      [] route = "GET /debug/vehicles" ->
             [i \in DOMAIN vehicles |-> {}]
             \o LET with_vehicle == SelectSeq(drivers, has_vehicle)
                IN  [i \in DOMAIN with_vehicle |->
                        {Get("User", with_vehicle[i].user_id)}]
      [] route = "GET /debug/fuel-entries" ->
             [i \in DOMAIN fuel_entries |->
                 {Get("Driver", fuel_entries[i].driver_id.v)}
                 \cup {Get("User", d.user_id) : d \in
                          {x \in Range(drivers) :
                              PyStr(x._id) = fuel_entries[i].driver_id}}]
      [] route \in {"GET /debug/rides", "GET /debug/rides-with-details"} ->
             [i \in DOMAIN rides |-> {}]
      [] OTHER -> [i \in DOMAIN users |-> {}]

\* The list of a success body.
ListOf(route, body) ==
    CASE route = "GET /debug/data"         -> body.data.users
      [] route \in {"GET /debug/users", "GET /debug/users-simple"} -> body.users
      [] route = "GET /debug/drivers"      -> body.drivers
      [] route = "GET /debug/vehicles"     -> body.vehicles
      [] route = "GET /debug/fuel-entries" -> body.fuel_entries
      [] OTHER                             -> body.rides

\* C16 (as amended): whatever datastore calls raise, a /debug endpoint
\* answers 200.  When one of its reads over a whole collection raises, the
\* body is "status": "error" with the message of the first that raised.
\* Otherwise the body is "status": "success", and it lists every item
\* except those for which a read of a single document raised: these are
\* left out (GET /debug/drivers, /debug/vehicles and /debug/fuel-entries).
C16_DebugSwallowsExceptions ==
    \A route \in DebugRoutes, faults \in FaultSets :
        LET r == DebugResponse(route, faults)
            e == FirstRaised(CollectionReads(route), faults)
            items == ItemReads(route)
            kept == {i \in DOMAIN items : items[i] \cap faults = {}}
        IN  /\ r.status = 200
            /\ IF e # <<>>
               THEN /\ r.body.status = "error"
                    /\ r.body.message = ExceptionMessage(e[1])
               ELSE /\ r.body.status = "success"
                    /\ Len(ListOf(route, r.body)) = Cardinality(kept)

\* C16 (as claimed): whenever a datastore read inside the handler raises,
\* the endpoint answers 200 with "status": "error" and the exception's
\* message, and when nothing raises it answers "status": "success".
C16_DebugErrorsReported ==
    \A route \in DebugRoutes, faults \in FaultSets :
        LET r == DebugResponse(route, faults)
            items == ItemReads(route)
            raised == faults \cap
                      (Range(CollectionReads(route))
                       \cup UNION {items[i] : i \in DOMAIN items})
        IN  /\ r.status = 200
            /\ IF raised # {}
               THEN /\ r.body.status = "error"
                    /\ \E c \in raised : r.body.message = ExceptionMessage(c)
               ELSE r.body.status = "success"

\* GET /debug/drivers answered "success" and left out a stored driver, the
\* one whose User.get raised.
C16_Witness ==
    /\ last.route = "GET /debug/drivers"
    /\ last.resp.status = 200
    /\ last.resp.body.status = "success"
    /\ Len(last.resp.body.drivers) < Len(drivers)

-----------------------------------------------------------------------------
(* The status and timestamps of a Ride                                     *)

-----------------------------------------------------------------------------
(* GET /vehicles                                                           *)

\* The drivers whose make, model, plate and colour are all non-empty, by
\* position in the store.
DriversWithVehicle ==
    {i \in DOMAIN drivers :
        \A f \in {"vehicle_make", "vehicle_model", "license_plate",
                  "vehicle_color"} :
            drivers[i][f] # PyNone /\ drivers[i][f] # PyStr("")}

EntriesFor(body, id) == {k \in DOMAIN body : body[k].id = id}

\* C18: GET /vehicles answers with one entry for every Vehicle document and
\* one for every Driver whose four vehicle attributes are all non-empty,
\* with no entry for any other Driver; the length of the result is the
\* number of Vehicle documents plus the number of such Drivers.
C18_VehiclesAndDriverVehicles ==
    LET r == get_all_vehicles
    IN  /\ r.status = 200
        /\ Len(r.body) = Len(vehicles) + Cardinality(DriversWithVehicle)
        /\ \A i \in DOMAIN vehicles :
               /\ Cardinality(EntriesFor(r.body, vehicles[i]._id)) = 1
               /\ \A k \in EntriesFor(r.body, vehicles[i]._id) :
                      r.body[k].license_plate = vehicles[i].license_plate
        /\ \A i \in DOMAIN drivers :
               IF i \in DriversWithVehicle
               THEN /\ Cardinality(EntriesFor(r.body, drivers[i]._id)) = 1
                    /\ \A k \in EntriesFor(r.body, drivers[i]._id) :
                           r.body[k].license_plate = drivers[i].license_plate
               ELSE EntriesFor(r.body, drivers[i]._id) = {}

\* An admin's GET /vehicles listed a Vehicle document and a driver's
\* vehicle.
C18_Witness ==
    /\ last.route = "GET /vehicles"
    /\ last.resp.status = 200
    /\ vehicles # <<>>
    /\ DriversWithVehicle # {}
    /\ Len(last.resp.body) = Len(vehicles) + Cardinality(DriversWithVehicle)
    /\ \E k \in DOMAIN last.resp.body : last.resp.body[k].id = "d1"

-----------------------------------------------------------------------------
(* A request answered 400                                                  *)

\* C19: a POST /users, POST /drivers, POST /passengers or POST /vehicles
\* request answered 400 (a duplicate email; a missing vehicle field or a
\* license_expiry that does not parse) leaves users, drivers, passengers,
\* vehicles and every other collection exactly as they were before it.
C19_Rejected400InsertsNothing ==
    [][(/\ last' # last
        /\ last'.route \in {"POST /users", "POST /drivers",
                            "POST /passengers", "POST /vehicles"}
        /\ last'.resp.status = 400)
       => /\ users' = users
          /\ drivers' = drivers
          /\ passengers' = passengers
          /\ vehicles' = vehicles
          /\ fuel_entries' = fuel_entries
          /\ rides' = rides]_vars

\* With a vehicle stored, an admin's POST /vehicles whose license_expiry
\* does not parse was answered 400, and the stored vehicle is still the
\* only one.
C19_Witness ==
    /\ last.route = "POST /vehicles"
    /\ last.resp.status = 400
    /\ last.resp.detail = <<"license_expiry must be in DD-MM-YYYY format">>
    /\ Len(vehicles) = 1
    /\ Len(users) > 1

-----------------------------------------------------------------------------
(* The writes of main.py                                                   *)

\* The collection after a step holds every document it held before, in
\* place and unchanged.
OnlyExtended(before, after) ==
    /\ Len(after) >= Len(before)
    /\ \A i \in DOMAIN before : after[i] = before[i]

\* C20: across every sequence of requests to the endpoints of main.py a
\* step only appends to users, drivers, passengers, vehicles, rides and
\* fuel_entries (no stored document is changed or removed), and every
\* stored Ride has status requested, no driver_id and no assigned_at,
\* picked_up_at or completed_at.
C20_InsertOnly ==
    /\ [][/\ OnlyExtended(users, users')
          /\ OnlyExtended(drivers, drivers')
          /\ OnlyExtended(passengers, passengers')
          /\ OnlyExtended(vehicles, vehicles')
          /\ OnlyExtended(rides, rides')
          /\ OnlyExtended(fuel_entries, fuel_entries')]_vars
    /\ [](\A i \in DOMAIN rides :
              /\ rides[i].status = "requested"
              /\ rides[i].driver_id = PyNone
              /\ rides[i].assigned_at = PyNone
              /\ rides[i].picked_up_at = PyNone
              /\ rides[i].completed_at = PyNone)

\* A ride was stored by a request that named a driver, a user was created,
\* and GET /rides has answered with the stored ride.
C20_Witness ==
    /\ last.route = "GET /rides"
    /\ last.resp.status = 200
    /\ last.resp.body # <<>>
    /\ Len(rides) = 1
    /\ Len(users) = 2

-----------------------------------------------------------------------------
(* The default password                                                    *)

\* The Users the creation handlers have inserted: all but the default
\* admin, which the store starts with.
CreatedUsers == {users[i] : i \in DOMAIN users \ {1}}

\* C21: every User inserted by POST /users, POST /drivers or POST
\* /passengers holds the hash of "password", whatever its body carried; for
\* the email of such a User, login with "password" answers with a token
\* for that email and login with any other password answers 401.
C21_DefaultPassword ==
    /\ \A u \in CreatedUsers :
           /\ u.password_hash = get_password_hash("password")
           /\ LET r == login([email |-> u.email, password |-> "password"])
              IN  /\ r.status = 200
                  /\ r.access_token = create_access_token(u.email)
           /\ \A p \in Passwords \ {"password"} :
                  LET r == login([email |-> u.email, password |-> p])
                  IN  r.status = 401 /\ "access_token" \notin DOMAIN r
    /\ (last.route = "POST /users" /\ last.resp.status = 200) =>
           last.resp.body.password_hash = get_password_hash("password")

\* The User created from the body that carried another password has logged
\* in with "password".
C21_Witness ==
    /\ last.route = "POST /auth/login"
    /\ last.resp.status = 200
    /\ last.resp.user.name = "Eve"
    /\ last.resp.user.password_hash = get_password_hash("password")
    /\ last.resp.user \in CreatedUsers

-----------------------------------------------------------------------------
(* What a failed login tells                                               *)

\* The credentials name no stored User.
UnknownEmail(c) == \A u \in Range(users) : u.email # c.email

\* The credentials name a stored User and carry a password that does not
\* verify against the hash of the User find_one returns.
WrongPassword(c) ==
    /\ ~UnknownEmail(c)
    /\ ~verify_password(c.password, StoredUser(c.email)[1].password_hash)

\* C22: for every login with an unknown email and every login with a known
\* email and a wrong password, the two responses are the same: status 401
\* and detail "Incorrect email or password", and nothing else.
C22_LoginFailuresAlike ==
    \A c1, c2 \in Credentials :
        UnknownEmail(c1) /\ WrongPassword(c2) =>
            /\ login(c1) = login(c2)
            /\ login(c1).status = 401
            /\ login(c1).detail = <<"Incorrect email or password">>
            /\ DOMAIN login(c1) = {"status", "detail"}

\* With ann@x registered by a creation request and bob@x not, a login has
\* failed.
C22_Witness ==
    /\ last.route = "POST /auth/login"
    /\ last.resp = HTTPException(401, <<"Incorrect email or password">>)
    /\ \E c \in Credentials : c.email = "bob@x" /\ UnknownEmail(c)
    /\ \E c \in Credentials : c.email = "ann@x" /\ WrongPassword(c)

-----------------------------------------------------------------------------
(* Required fields that hold a falsy value                                 *)

\* Nothing is inserted for a body with a falsy required field; POST
\* /vehicles answers it 400 "Missing required field: <field>", and POST
\* /fuel-entries answers it 500 with that error wrapped in "Failed to
\* create fuel entry: ".
FalsyFieldAnswers ==
    \A v \in FalsyValues :
        /\ \A field \in DOMAIN CompleteVehicleBody :
               LET r == create_vehicle([CompleteVehicleBody
                                            EXCEPT ![field] = v])
               IN  /\ r.resp = HTTPException(400, MissingRequiredField(field))
                   /\ r.inserted = <<>>
        /\ \A field \in DOMAIN CompleteFuelBody :
               LET r == create_fuel_entry([CompleteFuelBody
                                               EXCEPT ![field] = v])
               IN  /\ r.resp = HTTPException(500,
                                   <<"Failed to create fuel entry: ", "400: ">>
                                   \o MissingRequiredField(field))
                   /\ r.inserted = <<>>

\* C23: POST /vehicles and POST /fuel-entries answer a body whose required
\* field is present and 0, 0.0, "", false or null with the error "Missing
\* required field: <field>" (status 400), and insert nothing.
C23_FalsyIsMissing ==
    \A v \in FalsyValues :
        /\ Admitted("POST /vehicles") =>
               \A field \in DOMAIN CompleteVehicleBody :
                   LET r == create_vehicle([CompleteVehicleBody
                                                EXCEPT ![field] = v])
                   IN  /\ r.resp = HTTPException(400,
                                       MissingRequiredField(field))
                       /\ r.inserted = <<>>
        /\ Admitted("POST /fuel-entries") =>
               \A field \in DOMAIN CompleteFuelBody :
                   LET r == create_fuel_entry([CompleteFuelBody
                                                   EXCEPT ![field] = v])
                   IN  /\ r.resp = HTTPException(400,
                                       MissingRequiredField(field))
                       /\ r.inserted = <<>>

====
